---- MODULE Spec2Model ----
(***************************************************************************)
(* A state-machine model of iocore/net/UnixNetVConnection.cc: one          *)
(* UnixNetVConnection owned by thread A (its NetHandler nhA), a second     *)
(* thread B, and the continuations that use the connection.                *)
(*                                                                         *)
(* The program is written as operators from a state record to a state      *)
(* record, one per C function, composed in the order of the source.  A     *)
(* call into a continuation (handleEvent) suspends the calling function:   *)
(* a frame naming the call site is pushed on thread A's stack, the         *)
(* continuation runs as separate steps, and Resume continues the function  *)
(* after the call.  Each stretch of a function between two such calls is   *)
(* one step; another thread's operation takes effect between steps.        *)
(*                                                                         *)
(* The NetHandler's loop, the reactor, read_disable/write_disable and      *)
(* VIO::ntodo are not in UnixNetVConnection.cc and follow the written      *)
(* specification (sections 4.1, 4.4, 3, 6).                                *)
(***************************************************************************)
EXTENDS Integers, Sequences, FiniteSets, TLC

\* ------------------------------------------------------------------ bounds
\* Largest nbytes a continuation asks for.
MaxBytes == 1
\* Largest write_avail / read_avail of one buffer block.
MaxBlock == 1
\* Deepest nesting of continuation callbacks (reenable_re inside a callback).
MaxDepth == 2
\* Largest out-of-band message.
MaxOob == 2
\* Largest block of the chains the calls of one pass are computed for.
MaxFold == 2

\* --------------------------------------------------------------- constants
NULL == "NULL"
VC == "vc"
NO_FD == -1
EAGAIN == 11
ENOTCONN == 107
ECONNRESET == 104
EPIPE == 32
NET_MAX_IOV == 16
\* A kernel return that stands for "everything that was attempted": more
\* than any call of the model asks for.
FULL == NET_MAX_IOV + MaxBytes + MaxBlock + MaxOob

VIO_NONE == "NONE"
VIO_READ == "READ"
VIO_WRITE == "WRITE"
NET_VC_SHUTDOWN_READ == "SHUTDOWN_READ"
NET_VC_SHUTDOWN_WRITE == "SHUTDOWN_WRITE"

EVENT_NONE == "EVENT_NONE"
EVENT_DONE == "EVENT_DONE"
EVENT_CONT == "EVENT_CONT"
EVENT_ERROR == "EVENT_ERROR"
EVENT_IMMEDIATE == "EVENT_IMMEDIATE"
EVENT_INTERVAL == "EVENT_INTERVAL"
VC_EVENT_READ_READY == "VC_EVENT_READ_READY"
VC_EVENT_WRITE_READY == "VC_EVENT_WRITE_READY"
VC_EVENT_READ_COMPLETE == "VC_EVENT_READ_COMPLETE"
VC_EVENT_WRITE_COMPLETE == "VC_EVENT_WRITE_COMPLETE"
VC_EVENT_EOS == "VC_EVENT_EOS"
VC_EVENT_ERROR == "VC_EVENT_ERROR"
VC_EVENT_INACTIVITY_TIMEOUT == "VC_EVENT_INACTIVITY_TIMEOUT"
VC_EVENT_ACTIVE_TIMEOUT == "VC_EVENT_ACTIVE_TIMEOUT"
VC_EVENT_OOB_COMPLETE == "VC_EVENT_OOB_COMPLETE"
NET_EVENT_ACCEPT == "NET_EVENT_ACCEPT"
NET_EVENT_OPEN == "NET_EVENT_OPEN"
NET_EVENT_OPEN_FAILED == "NET_EVENT_OPEN_FAILED"
SSL_HANDSHAKE_WANT_READ == "SSL_HANDSHAKE_WANT_READ"
SSL_HANDSHAKE_WANT_WRITE == "SSL_HANDSHAKE_WANT_WRITE"
SSL_HANDSHAKE_WANT_ACCEPT == "SSL_HANDSHAKE_WANT_ACCEPT"
SSL_HANDSHAKE_WANT_CONNECT == "SSL_HANDSHAKE_WANT_CONNECT"

\* A deadline is 0 (disarmed), DUE (armed, not after now) or LATER (armed,
\* after now): all that mainEvent compares with Thread::get_hrtime().
Now == 1
DUE == Now
LATER == Now + 1

\* A VIO without a buffer, and a connection without a pending OOB_callback.
NoBuf == [null |-> TRUE, blocks |-> <<>>, wavail |-> 0, pos |-> 0]
NoOob == [server_cont |-> NULL, data |-> 0, length |-> 0]

\* ------------------------------------------------------------------- state
VARIABLES
  env,    \* the environment of the run: what the users and the kernel may do
  vc,     \* the UnixNetVConnection's own fields
  read,   \* vc->read  (NetState, with its VIO's fields)
  write,  \* vc->write
  nh,     \* thread A's NetHandler: its lists, its mutex, where its loop is
  stack,  \* thread A's stack: the calls into continuations not yet returned
  other,  \* thread B: the VIO mutex it holds
  hist,   \* history of the run, read only by the properties
  step    \* the step taken last, kept in the runs whose fairness is stated

vars == <<env, vc, read, write, nh, stack, other, hist, step>>

State == [vc |-> vc, read |-> read, write |-> write, nh |-> nh,
          stack |-> stack, other |-> other, hist |-> hist]

\* ----------------------------------------------------------------- helpers
Min(a, b) == IF a < b THEN a ELSE b
Max(a, b) == IF a > b THEN a ELSE b

RECURSIVE Sum(_)
Sum(q) == IF q = <<>> THEN 0 ELSE Head(q) + Sum(Tail(q))

\* Remove one occurrence of x from a list.
RECURSIVE RemoveOne(_, _)
RemoveOne(q, x) ==
  IF q = <<>> THEN <<>>
  ELSE IF Head(q) = x THEN Tail(q) ELSE <<Head(q)>> \o RemoveOne(Tail(q), x)

InList(q, x) == \E i \in 1..Len(q) : q[i] = x

\* A block chain after n bytes were filled into (or consumed from) its front.
RECURSIVE Advance(_, _)
Advance(blocks, n) ==
  IF n <= 0 \/ blocks = <<>> THEN blocks
  ELSE IF Head(blocks) <= n THEN <<0>> \o Advance(Tail(blocks), n - Head(blocks))
  ELSE <<Head(blocks) - n>> \o Tail(blocks)

mutex_of(c) == IF c = NULL THEN "vcm" ELSE IF c = "c1" THEN "m1" ELSE "m2"

NoFrame == [pc |-> NULL, lock |-> NULL, held |-> {}, ev |-> NULL, cont |-> NULL,
            data |-> NULL,
            signalled |-> 0, sig |-> NULL, at |-> NULL,
            rcont |-> NULL, wcont |-> NULL]

Top(s) == s.stack[Len(s.stack)]
Pop(s) == [s EXCEPT !.stack = SubSeq(@, 1, Len(@) - 1)]
Depth(s) == Len(s.stack)

\* ------------------------------------------------------- queues of P_UnixNet
ReadyOf(d) == IF d = "read" THEN "read_ready_list" ELSE "write_ready_list"
EnableOf(d) == IF d = "read" THEN "read_enable_list" ELSE "write_enable_list"

in_or_enqueue(s, d) == [s EXCEPT !.nh[ReadyOf(d)] = @ \cup {VC}]
ready_remove(s, d) == [s EXCEPT !.nh[ReadyOf(d)] = @ \ {VC}]

\* VIO::ntodo (specification, section 3): nbytes - ndone.
ntodo(s, d) == s[d].nbytes - s[d].ndone

write_avail(buf) == Sum(buf.blocks)
read_avail(buf) == Sum(buf.blocks)

\* MIOBuffer::fill(n) and IOBufferReader::consume(n): the position moves by
\* what the blocks take (pos counts the bytes filled or consumed since the
\* buffer's VIO was set up).
fill(buf, n) ==
  [buf EXCEPT !.blocks = Advance(@, n),
              !.pos = @ + (Sum(buf.blocks) - Sum(Advance(buf.blocks, n)))]
consume(buf, n) == fill(buf, n)

\* read_disable / write_disable (specification, section 4.4): remove from the
\* ready list, clear enabled, ep.modify(no interest in that direction).
disable(s, d) == [ready_remove(s, d) EXCEPT ![d].enabled = 0]
read_disable(s) == disable(s, "read")
write_disable(s) == disable(s, "write")

\* ------------------------------------------------- lines 50-68: reschedule
reschedule(s, d) ==
  IF s[d].triggered = 1 /\ s[d].enabled = 1
  THEN in_or_enqueue(s, d)
  ELSE ready_remove(s, d)

\* A read_reschedule that only ever takes the VC off the ready list.
read_reschedule_remove(s) == ready_remove(s, "read")
read_reschedule(s) == reschedule(s, "read")
write_reschedule(s) == reschedule(s, "write")

\* ---------------------------------------------- lines 70-92: net_activity
net_activity(s) ==
  IF s.vc.inactivity_timeout_in # 0
  THEN [s EXCEPT !.vc.next_inactivity_timeout_at = LATER]
  ELSE [s EXCEPT !.vc.next_inactivity_timeout_at = 0]

\* -------------------------------------------- lines 743-755: cancel_OOB
cancel_OOB(s) == [s EXCEPT !.vc.oob_ptr = NoOob]

\* ink_release_assert(0), or a failed ink_assert of a debug build: the
\* process aborts.
abort(s) == [s EXCEPT !.vc.life = "aborted", !.stack = <<>>]

\* ------------------------------------------------ lines 1311-1353: free
\* line 1345: a debug build asserts that the socket is gone.
free(s) ==
  IF env.debug /\ s.vc.fd # NO_FD THEN abort(s) ELSE
  [s EXCEPT !.vc.nh = NULL,
            !.other.open_stat = @ - 1,
            !.vc.closed = 0,
            !.vc.life = "freed",
            !.read.triggered = 0, !.write.triggered = 0,
            !.read.enabled = 0, !.write.enabled = 0,
            !.read.cont = NULL, !.write.cont = NULL,
            !.read.mutex = NULL, !.write.mutex = NULL]

\* ------------------------------ lines 97-140: close_UnixNetVConnection
\* line 105 is ink_release_assert(vc->thread == t): on another thread the
\* process aborts there, after cancel_OOB, ep.stop and con.close.
close_lists(s) ==
  LET s1 == [s EXCEPT !.nh.open_list = @ \ {VC},
                      !.nh.read_ready_list = @ \ {VC},
                      !.nh.write_ready_list = @ \ {VC}]
      s2 == IF s1.read.in_enabled_list = 1
            THEN [s1 EXCEPT !.nh.read_enable_list = RemoveOne(@, VC),
                            !.read.in_enabled_list = 0]
            ELSE s1
  IN  IF s2.write.in_enabled_list = 1
      THEN [s2 EXCEPT !.nh.write_enable_list = RemoveOne(@, VC),
                      !.write.in_enabled_list = 0]
      ELSE s2

close_UnixNetVConnection(s, t) ==
  LET s0 == [s EXCEPT !.hist.closes = Min(@ + 1, 2),
                      !.hist.close_rec = @ \/ s.vc.recursion > 0,
                      !.hist.close_thread_ok = @ /\ s.vc.thread = t]
      s1 == [cancel_OOB(s0) EXCEPT !.vc.ep = FALSE,
                                   !.vc.fd = NO_FD,
                                   !.hist.fd_closed = @ \/ s.vc.fd # NO_FD,
                                   !.vc.next_inactivity_timeout_at = 0,
                                   !.vc.next_activity_timeout_at = 0,
                                   !.vc.inactivity_timeout_in = 0,
                                   !.vc.active_timeout_in = 0]
      s2 == IF s1.vc.nh # NULL THEN close_lists(s1) ELSE s1
  IN  IF s.vc.thread # t THEN abort(s1) ELSE free(s2)

\* ------------------------------------------------------------ continuations
\* A continuation's handleEvent(event, ...) is entered: the calling function
\* is suspended at frame f until the continuation returns.
handleEvent(s, c, event, f) ==
  [s EXCEPT !.stack = Append(@, [f EXCEPT !.ev = event, !.cont = c]),
            !.hist.sig = Append(@, event),
            !.hist.ev_after_close = @ \/ s.hist.io_close,
            !.hist.rcomp = IF event = VC_EVENT_READ_COMPLETE THEN Min(@ + 1, 2) ELSE @,
            !.hist.wcomp = IF event = VC_EVENT_WRITE_COMPLETE THEN Min(@ + 1, 2) ELSE @,
            !.hist.comp_ok = @ /\ (event = VC_EVENT_READ_COMPLETE => ntodo(s, "read") = 0)
                               /\ (event = VC_EVENT_WRITE_COMPLETE => ntodo(s, "write") = 0)]

TerminalEvents == {VC_EVENT_EOS, VC_EVENT_ERROR, VC_EVENT_ACTIVE_TIMEOUT,
                   VC_EVENT_INACTIVITY_TIMEOUT}

\* A pass has locked direction d's VIO: hist.pass keeps what the pass found.
Enter(s, d) ==
  [s EXCEPT !.hist.pass = Append(@,
     [d |-> d, enabled |-> s[d].enabled, op |-> s[d].op, triggered |-> s[d].triggered,
      nbytes |-> s[d].nbytes, ndone |-> s[d].ndone, null |-> s[d].buf.null,
      avail |-> Sum(s[d].buf.blocks)])]

\* A pass has its result r: hist.res keeps it with what the VIO was before.
Result(s, d, r) ==
  [d |-> d, r |-> r, ndone |-> s[d].ndone, buf |-> s[d].buf]

\* MUTEX_TRY_LOCK by thread A: fails when thread B holds the mutex.  A VIO
\* that was never set up has no mutex and no continuation to protect.
TryLock(s, m) == m = NULL \/ s.other.lock # m

\* ------------------------------------------------------ kernel (section 6)
\* What read/readv/write/writev/send returns when `attempted` bytes were asked
\* for and the kernel's answer is k: never more than was asked for.
syscall(k, attempted) == IF k > attempted THEN attempted ELSE k

\* The kernel's answer to the i-th call of a pass.
answer(ks, i) == IF i <= Len(ks) THEN ks[i] ELSE -EAGAIN

\* ----------------------------------------- lines 145-243: signal an event
\* lines 159-165: the VIO has no continuation.  The default handling of a
\* terminal event marks the VC closed; the function goes on at line 166 as
\* after a handler, which the frame without a continuation stands for.
no_continuation_open(s, event, f) ==
  IF event \in TerminalEvents
  THEN [s EXCEPT !.stack = Append(@, [f EXCEPT !.ev = event, !.cont = NULL])]
  ELSE abort(s)
no_continuation(s, event, f) ==
  IF event \in TerminalEvents
  THEN [s EXCEPT !.vc.closed = 1,
                 !.stack = Append(@, [f EXCEPT !.ev = event, !.cont = NULL])]
  ELSE abort(s)

\* lines 145-165 and 176-196: up to the call of the handler.
signal_and_update(d, event, s, f) ==
  IF s[d].cont # NULL
  THEN handleEvent([s EXCEPT !.vc.recursion = @ + 1], s[d].cont, event, f)
  ELSE no_continuation([s EXCEPT !.vc.recursion = @ + 1], event, f)

read_signal_and_update(event, s, f) == signal_and_update("read", event, s, f)
write_signal_and_update(event, s, f) == signal_and_update("write", event, s, f)

\* A read_signal_done that leaves read.enabled as it is.
read_signal_enabled(event, s, f) ==
  read_signal_and_update(event, s, [f EXCEPT !.pc = "read_done"])
read_signal_done(event, s, f) ==
  read_signal_and_update(event, [s EXCEPT !.read.enabled = 0],
                         [f EXCEPT !.pc = "read_done"])

write_signal_done(event, s, f) ==
  write_signal_and_update(event, [s EXCEPT !.write.enabled = 0],
                          [f EXCEPT !.pc = "write_done"])

read_signal_error(s, lerrno, f) ==
  read_signal_done(VC_EVENT_ERROR, [s EXCEPT !.vc.lerrno = lerrno], f)

write_signal_error(s, lerrno, f) ==
  write_signal_done(VC_EVENT_ERROR, [s EXCEPT !.vc.lerrno = lerrno], f)

\* ------------------------------------------- lines 249-406: read_from_net
\* lines 298-312: fill the iovec from the block chain.
RECURSIVE read_iov(_, _, _, _)
read_iov(blocks, limit, niov, rattempted) ==
  IF blocks = <<>> \/ niov >= NET_MAX_IOV
  THEN [rattempted |-> rattempted, niov |-> niov, b |-> blocks]
  ELSE IF Head(blocks) > 0
  THEN LET togo == limit - rattempted
           a == Min(Head(blocks), togo)
       IN  IF a >= togo
           THEN [rattempted |-> rattempted + a, niov |-> niov + 1, b |-> blocks]
           ELSE read_iov(Tail(blocks), limit, niov + 1, rattempted + a)
  ELSE read_iov(Tail(blocks), limit, niov, rattempted)

\* lines 295-340: the do-while loop of read/readv calls.  `moved` counts the
\* bytes the socket delivered (it is not a variable of the program).
RECURSIVE read_loop(_, _, _, _, _, _)
read_loop(blocks, toread, total_read, ks, i, moved) ==
  LET v == read_iov(blocks, toread - total_read, 0, 0)
      r == syscall(answer(ks, i), v.rattempted)
      total == total_read + v.rattempted
  IN  IF v.rattempted # 0 /\ r = v.rattempted /\ total < toread
      THEN read_loop(v.b, toread, total, ks, i + 1, moved + r)
      ELSE [r |-> r, rattempted |-> v.rattempted, total_read |-> total,
            calls |-> i, moved |-> moved + Max(r, 0)]

\* lines 343-348 and 514-519: summarize the bytes already moved in r.
fold_last(total, attempted, r) == r
fold_no_last(total, attempted, r) == IF total # attempted THEN total - attempted ELSE r
fold(total, attempted, r) ==
  IF total # attempted
  THEN IF r <= 0 THEN total - attempted ELSE total - attempted + r
  ELSE r

\* lines 399-405.
read_tail_reschedule(s) == read_reschedule(s)
read_tail(s) ==
  IF ntodo(s, "read") <= 0 THEN read_disable(s)
  ELSE IF s.read.enabled = 0 THEN read_disable(s)
  ELSE IF write_avail(s.read.buf) = 0 THEN read_disable(s)
  ELSE read_reschedule(s)

\* lines 381-398.
read_signal_complete(s, r, f) ==
  IF r # 0 THEN read_signal_done(VC_EVENT_READ_COMPLETE, s, f) ELSE read_tail(s)
read_signal(s, r, f) ==
  IF r # 0
  THEN IF ntodo(s, "read") <= 0
       THEN read_signal_done(VC_EVENT_READ_COMPLETE, s, f)
       ELSE read_signal_and_update(VC_EVENT_READ_READY, s,
                                   [f EXCEPT !.pc = "read_ready"])
  ELSE read_tail(s)

\* lines 371-379: r bytes were read.
read_fill(s, r) ==
  net_activity([s EXCEPT !.read.buf = fill(@, r),
                         !.hist.rsum = @ + r,
                         !.read.ndone = @ + r])

\* lines 350-379: the result r of the calls.
read_result(s, r, f) ==
  IF r <= 0
  THEN IF r = -EAGAIN \/ r = -ENOTCONN
       THEN ready_remove([s EXCEPT !.read.triggered = 0], "read")
       ELSE IF r = 0 \/ r = -ECONNRESET
       THEN read_signal_done(VC_EVENT_EOS,
                             ready_remove([s EXCEPT !.read.triggered = 0], "read"), f)
       ELSE read_signal_error([s EXCEPT !.read.triggered = 0], -r, f)
  ELSE read_signal(read_fill(s, r), r, f)

\* lines 293-348: the calls were made; L is what the loop leaves.
read_calls(s, L, r, f) ==
  read_result([s EXCEPT !.hist.res = Append(@, Result(s, "read", r)),
                        !.hist.rsys = L.calls,
                        !.hist.rsock = @ + L.moved], r, f)

read_folded(s, L, f) ==
  read_calls(s, L, fold(L.total_read, L.rattempted, L.r), f)

\* lines 285-287: toread is capped by ntodo.
read_toread_uncapped(s) == write_avail(s.read.buf)
read_toread(s) == Min(write_avail(s.read.buf), ntodo(s, "read"))

\* lines 285-379.
read_io(s, f, ks) ==
  IF read_toread(s) # 0
  THEN read_folded(s, read_loop(s.read.buf.blocks, read_toread(s), 0, ks, 1, 0), f)
  ELSE read_signal(s, 0, f)

\* lines 271-406: the VIO is locked and the VC is not closed.
read_locked(s, ks) ==
  IF s.read.enabled = 0 \/ s.read.op # VIO_READ THEN read_disable(s)
  ELSE IF s.read.buf = NoBuf THEN abort(s)
  ELSE IF ntodo(s, "read") <= 0 THEN read_disable(s)
  ELSE read_io(s, [NoFrame EXCEPT !.lock = s.read.mutex,
                                  !.held = {s.read.mutex}], ks)

read_from_net(s, ks) ==
  IF ~TryLock(s, s.read.mutex) THEN read_reschedule(s)
  ELSE IF s.vc.closed # 0 THEN close_UnixNetVConnection(s, "A")
  ELSE read_locked(Enter(s, "read"), ks)

net_read_io(s, ks) == read_from_net(s, ks)

\* ------------------------------- lines 930-998: load_buffer_and_write
\* lines 944-967: build the iovec from the reader's block chain; a block is
\* kept as the bytes still unread in it (read_avail less the start offset).
RECURSIVE write_iov(_, _, _, _)
write_iov(blocks, towrite, niov, total_written) ==
  IF blocks = <<>> \/ niov >= NET_MAX_IOV
  THEN [total_written |-> total_written, niov |-> niov, b |-> blocks]
  ELSE IF Head(blocks) <= 0
  THEN write_iov(Tail(blocks), towrite, niov, total_written)
  ELSE LET l == Min(Head(blocks), towrite - total_written)
       IN  IF l = 0
           THEN [total_written |-> total_written, niov |-> niov, b |-> blocks]
           ELSE write_iov(Tail(blocks), towrite, niov + 1, total_written + l)

RECURSIVE load_buffer_and_write(_, _, _, _, _, _)
load_buffer_and_write(blocks, towrite, total_written, ks, i, moved) ==
  LET v == write_iov(blocks, towrite, 0, total_written)
      wattempted == v.total_written - total_written
      r == syscall(answer(ks, i), wattempted)
  IN  IF wattempted # 0 /\ r = wattempted /\ v.total_written < towrite
      THEN load_buffer_and_write(v.b, towrite, v.total_written, ks, i + 1, moved + r)
      ELSE [r |-> r, wattempted |-> wattempted, total_written |-> v.total_written,
            calls |-> i, moved |-> moved + Max(r, 0), needs |-> {"EVENTIO_WRITE"}]

\* ----------------------------------------- lines 423-593: write_to_net_io
\* lines 580-591.
write_tail(s, needs) ==
  IF read_avail(s.write.buf) = 0 THEN write_disable(s)
  ELSE IF needs = {"EVENTIO_WRITE"} THEN write_reschedule(s)
  ELSE IF needs = {"EVENTIO_READ"} THEN read_reschedule(s)
  ELSE IF needs = {"EVENTIO_WRITE", "EVENTIO_READ"}
  THEN read_reschedule(write_reschedule(s))
  ELSE s

\* lines 560-579.
write_signal(s, f, wbe_event) ==
  IF ntodo(s, "write") <= 0
  THEN write_signal_done(VC_EVENT_WRITE_COMPLETE, s, f)
  ELSE IF f.signalled = 1 /\ wbe_event # s.vc.write_buffer_empty_event
  THEN write_signal_and_update(wbe_event, s, [f EXCEPT !.pc = "write_wbe"])
  ELSE IF f.signalled = 0
  THEN write_signal_and_update(VC_EVENT_WRITE_READY, s,
                               [f EXCEPT !.pc = "write_ready"])
  ELSE write_tail(s, {"EVENTIO_WRITE"})

\* lines 521-531: the result is EAGAIN or ENOTCONN.
write_again_triggered(s, needs) ==
  IF needs = {"EVENTIO_WRITE"} THEN write_reschedule(s) ELSE s
write_again(s, needs) ==
  IF needs = {"EVENTIO_WRITE"}
  THEN write_reschedule(ready_remove([s EXCEPT !.write.triggered = 0], "write"))
  ELSE IF needs = {"EVENTIO_READ"}
  THEN read_reschedule(ready_remove([s EXCEPT !.read.triggered = 0], "read"))
  ELSE s

\* lines 545-553: r bytes were written.
write_consume(s, r) ==
  net_activity(
    [s EXCEPT !.write.buf = consume(@, r),
              !.hist.wsum = @ + r,
              !.write.ndone = @ + r,
              !.vc.write_buffer_empty_event =
                 IF read_avail(consume(s.write.buf, r)) = 0 THEN EVENT_NONE ELSE @])

\* lines 521-579: the result r of the calls.
write_result(s, r, needs, f) ==
  IF r <= 0
  THEN IF r = -EAGAIN \/ r = -ENOTCONN
       THEN write_again([s EXCEPT !.hist.again = <<[buf |-> s.write.buf,
                                                   ndone |-> s.write.ndone]>>],
                        needs)
       ELSE IF r = 0 \/ r = -ECONNRESET
       THEN write_signal_done(VC_EVENT_EOS, [s EXCEPT !.write.triggered = 0], f)
       ELSE write_signal_error([s EXCEPT !.write.triggered = 0], -r, f)
  ELSE write_signal(write_consume(s, r), f, s.vc.write_buffer_empty_event)

\* lines 509-519: the calls were made; L is what load_buffer_and_write leaves.
write_calls(s, L, r, f) ==
  write_result([s EXCEPT !.hist.res = Append(@, Result(s, "write", r)),
                         !.hist.wsys = L.calls,
                         !.hist.wsock = @ + L.moved], r, L.needs, f)

write_folded(s, L, f) ==
  write_calls(s, L, fold(L.total_written, L.wattempted, L.r), f)

\* lines 480-485, 502-503: towrite is capped by ntodo.
write_towrite(s) == Min(read_avail(s.write.buf), ntodo(s, "write"))

\* lines 502-559.
write_io(s, f, ks) ==
  IF write_towrite(s) <= 0 THEN write_disable(s)
  ELSE write_folded(s, load_buffer_and_write(s.write.buf.blocks, write_towrite(s),
                                             0, ks, 1, 0), f)

\* lines 491-501: after the refill signal returned EVENT_CONT.
write_after_refill(s, f, ks) ==
  IF ntodo(s, "write") <= 0 THEN write_disable(s)
  ELSE write_io(s, [f EXCEPT !.signalled = 1], ks)

\* lines 438-464: the handshake is not complete; ret and err are what
\* sslStartHandShake gave (section 4.6; a finished handshake is complete).
write_handshake(s, f, ret, err) ==
  IF ret = EVENT_ERROR
  THEN write_signal_error([s EXCEPT !.write.triggered = 0], err, f)
  ELSE IF ret \in {SSL_HANDSHAKE_WANT_READ, SSL_HANDSHAKE_WANT_ACCEPT}
  THEN read_reschedule(ready_remove([s EXCEPT !.read.triggered = 0], "read"))
  ELSE IF ret \in {SSL_HANDSHAKE_WANT_CONNECT, SSL_HANDSHAKE_WANT_WRITE}
  THEN write_reschedule(ready_remove([s EXCEPT !.write.triggered = 0], "write"))
  ELSE IF ret = EVENT_DONE
  THEN IF s.write.enabled = 1
       THEN in_or_enqueue([s EXCEPT !.write.triggered = 1,
                                    !.vc.handshake_complete = TRUE], "write")
       ELSE [s EXCEPT !.write.triggered = 1, !.vc.handshake_complete = TRUE]
  ELSE write_reschedule(s)

\* lines 465-501.
write_start(s, f, ks) ==
  IF s.write.enabled = 0 \/ s.write.op # VIO_WRITE THEN write_disable(s)
  ELSE IF ntodo(s, "write") <= 0 THEN write_disable(s)
  ELSE IF s.write.buf = NoBuf THEN abort(s)
  ELSE IF write_towrite(s) # ntodo(s, "write") /\ s.write.buf.wavail # 0
  THEN write_signal_and_update(VC_EVENT_WRITE_READY, s,
                               [f EXCEPT !.pc = "write_refill"])
  ELSE write_io(s, f, ks)

write_to_net_io(s, ret, err, ks) ==
  IF ~TryLock(s, s.write.mutex) THEN write_reschedule(s)
  ELSE IF ~s.vc.handshake_complete
  THEN write_handshake(s, [NoFrame EXCEPT !.lock = s.write.mutex,
                                          !.held = {s.write.mutex}], ret, err)
  ELSE write_start(Enter(s, "write"),
                   [NoFrame EXCEPT !.lock = s.write.mutex,
                                   !.held = {s.write.mutex}], ks)

write_to_net(s, ret, err, ks) == write_to_net_io(s, ret, err, ks)

\* --------------------------------------- lines 1117-1192: mainEvent
\* lines 1187-1191: the write side.
main_write_both(s, f) ==
  IF /\ s.vc[f.at] = 0
     /\ s.vc.closed = 0
     /\ s.write.op = VIO_WRITE
     /\ NET_VC_SHUTDOWN_WRITE \notin s.vc.shutdown
     /\ f.wcont = s.write.cont
  THEN write_signal_and_update(f.sig, s, [f EXCEPT !.pc = "main_write"])
  ELSE s
main_write(s, f) ==
  IF /\ s.vc[f.at] = 0
     /\ s.vc.closed = 0
     /\ s.write.op = VIO_WRITE
     /\ NET_VC_SHUTDOWN_WRITE \notin s.vc.shutdown
     /\ f.rcont # s.write.cont
     /\ f.wcont = s.write.cont
  THEN write_signal_and_update(f.sig, s, [f EXCEPT !.pc = "main_write"])
  ELSE s

\* lines 1172-1185: the timeout is disarmed (line 1172), then signalled.
main_timeout(s, f) ==
  IF s.vc.closed # 0 THEN close_UnixNetVConnection(s, s.vc.thread)
  ELSE IF s.read.op = VIO_READ /\ NET_VC_SHUTDOWN_READ \notin s.vc.shutdown
  THEN read_signal_and_update(f.sig, s, f)
  ELSE main_write(s, [f EXCEPT !.rcont = NULL])

main_signal(s, signal_event, at) ==
  main_timeout([s EXCEPT !.vc[at] = 0],
               [NoFrame EXCEPT !.pc = "main_read", !.sig = signal_event, !.at = at,
                               !.held = {s.read.mutex, s.write.mutex},
                               !.rcont = s.read.cont,
                               !.wcont = s.write.cont])

mainEvent(s, event) ==
  IF ~TryLock(s, s.read.mutex) \/ ~TryLock(s, s.write.mutex) THEN s
  ELSE IF event = EVENT_IMMEDIATE
  THEN IF s.vc.inactivity_timeout_in = 0 \/ s.vc.next_inactivity_timeout_at = LATER
       THEN s
       ELSE main_signal(s, VC_EVENT_INACTIVITY_TIMEOUT, "next_inactivity_timeout_at")
  ELSE main_signal(s, VC_EVENT_ACTIVE_TIMEOUT, "next_activity_timeout_at")

\* --------------------------------- the code after a call into a continuation
\* What the function suspended at frame f does once the signal returned ret.
Continue(s, f, ret, ks) ==
  CASE f.pc = "read_done" ->
         IF ret = EVENT_DONE THEN s ELSE read_reschedule(s)
    [] f.pc = "write_done" ->
         IF ret = EVENT_DONE THEN s ELSE write_reschedule(s)
    [] f.pc = "read_ready" ->
         IF ret # EVENT_CONT THEN s
         ELSE IF f.lock # s.read.mutex THEN read_reschedule(s)
         ELSE read_tail(s)
    [] f.pc = "write_refill" ->
         IF ret # EVENT_CONT THEN s ELSE write_after_refill(s, f, ks)
    [] f.pc = "write_wbe" ->
         IF ret # EVENT_CONT THEN s ELSE write_tail(s, {"EVENTIO_WRITE"})
    [] f.pc = "write_ready" ->
         IF ret # EVENT_CONT THEN s
         ELSE IF f.lock # s.write.mutex THEN write_reschedule(s)
         ELSE write_tail(s, {"EVENTIO_WRITE"})
    [] f.pc = "main_read" ->
         IF ret = EVENT_DONE THEN s ELSE main_write(s, f)
    [] OTHER -> s

\* lines 166-173, 197-204: the handler has returned.
signal_closes(s) == close_UnixNetVConnection(s, s.vc.thread)

signal_return(s, f, ks) ==
  IF s.vc.recursion = 1 /\ s.vc.closed # 0
  THEN Continue(signal_closes([s EXCEPT !.vc.recursion = 0]), f, EVENT_DONE, ks)
  ELSE Continue([s EXCEPT !.vc.recursion = @ - 1], f, EVENT_CONT, ks)

\* ------------------------------------------ lines 901-918: set_enabled
\* line 905 is ink_assert(!closed): a debug build aborts there, a release
\* build goes on.
set_enabled(s, d) ==
  IF s.vc.closed # 0 /\ env.debug THEN abort(s)
  ELSE IF s.vc.next_inactivity_timeout_at = 0 /\ s.vc.inactivity_timeout_in # 0
  THEN [s EXCEPT ![d].enabled = 1, !.vc.next_inactivity_timeout_at = LATER]
  ELSE [s EXCEPT ![d].enabled = 1]

aborted(s) == s.vc.life = "aborted"

\* --------------------------------------------- lines 793-854: reenable
\* lines 805-819, 837-851: the caller holds nh->mutex.
reenable_ready(s, d) ==
  IF s[d].triggered = 1 THEN in_or_enqueue(s, d) ELSE ready_remove(s, d)

\* lines 834-835: the owner's signal hook, when it has one, is called.
signal_hook(s) == [s EXCEPT !.hist.wake = TRUE]

\* lines 823-835: the try-lock of nh->mutex failed.
reenable_push_again(s, d) ==
  signal_hook([s EXCEPT ![d].in_enabled_list = 1,
                        !.nh[EnableOf(d)] = <<VC>> \o @])
reenable_push(s, d) ==
  IF s[d].in_enabled_list = 0
  THEN signal_hook([s EXCEPT ![d].in_enabled_list = 1,
                             !.nh[EnableOf(d)] = <<VC>> \o @])
  ELSE signal_hook(s)

\* lines 824-825, 829-830: thread B has tested and set in_enabled_list; its
\* push is still to come, and thread A runs in between.
reenable_mark(s, d) ==
  [s EXCEPT ![d].in_enabled_list = 1, !.other.push = <<d>>]

\* lines 826, 831, 834-835: the push.  this->nh is read again here: on a VC
\* that was freed in between it is null and the process faults, unless the
\* build kept the pointer it read at line 810 (cached).
reenable_link(s, d, cached) ==
  IF s.vc.nh = NULL /\ ~cached THEN [abort(s) EXCEPT !.other.push = <<>>]
  ELSE signal_hook([s EXCEPT !.nh[EnableOf(d)] = <<VC>> \o @,
                             !.other.push = <<>>])

\* lines 799-853: after set_enabled.
reenable_enabled(s, d, t) ==
  IF aborted(s) \/ s.vc.thread = NULL THEN s
  ELSE IF s.nh.mutex = t THEN reenable_ready(s, d)
  ELSE IF s.nh.mutex # NULL THEN reenable_push(s, d)
  ELSE reenable_ready(s, d)

reenable(s, d, t) ==
  IF s[d].enabled = 1 THEN s
  ELSE reenable_enabled(set_enabled(s, d), d, t)

\* ------------------------------------------ lines 856-882: reenable_re
\* lines 865-879: after set_enabled.
reenable_re_enabled(s, d, ret, err, ks) ==
  IF aborted(s) THEN s
  ELSE IF s[d].triggered = 0 THEN ready_remove(s, d)
  ELSE IF d = "read" THEN net_read_io(s, ks)
  ELSE write_to_net(s, ret, err, ks)

reenable_re(s, d, t, ret, err, ks) ==
  IF s.vc.thread = NULL THEN s
  ELSE IF s.nh.mutex = t
  THEN reenable_re_enabled(set_enabled(s, d), d, ret, err, ks)
  ELSE reenable(s, d, t)

\* ------------------------------------------- lines 621-644: do_io_read
do_io_read(s, c, nbytes, buf, t) ==
  IF c = NULL /\ nbytes # 0 /\ env.debug THEN abort(s)
  ELSE IF s.vc.closed # 0 THEN s
  ELSE LET s1 == [s EXCEPT !.read.op = VIO_READ,
                           !.read.mutex = mutex_of(c),
                           !.read.cont = c,
                           !.read.nbytes = nbytes,
                           !.read.ndone = 0,
                           !.hist.rcomp = 0, !.hist.rsock = 0, !.hist.rsum = 0]
       IN  IF buf # NoBuf
           THEN LET s2 == [s1 EXCEPT !.read.buf = buf]
                IN  IF s2.read.enabled = 0 THEN reenable(s2, "read", t) ELSE s2
           ELSE [s1 EXCEPT !.read.buf = NoBuf, !.read.enabled = 0]

\* ------------------------------------------ lines 646-668: do_io_write
do_io_write(s, c, nbytes, reader, t) ==
  IF s.vc.closed # 0 THEN s
  ELSE LET s1 == [s EXCEPT !.write.op = VIO_WRITE,
                           !.write.mutex = mutex_of(c),
                           !.write.cont = c,
                           !.write.nbytes = nbytes,
                           !.write.ndone = 0,
                           !.write.buf.pos = 0,
                           !.hist.wcomp = 0, !.hist.wsock = 0, !.hist.wsum = 0]
       IN  IF reader # NoBuf
           THEN LET s2 == [s1 EXCEPT !.write.buf = reader]
                IN  IF nbytes # 0 /\ s2.write.enabled = 0
                    THEN reenable(s2, "write", t)
                    ELSE s2
           ELSE [s1 EXCEPT !.write.enabled = 0]

\* ------------------------------------------ lines 670-697: do_io_close
do_io_close(s, alerrno, t) ==
  LET s1 == [s EXCEPT !.read.enabled = 0, !.write.enabled = 0,
                      !.read.buf = NoBuf, !.read.nbytes = 0,
                      !.read.op = VIO_NONE, !.read.cont = NULL,
                      !.write.buf = NoBuf, !.write.nbytes = 0,
                      !.write.op = VIO_NONE, !.write.cont = NULL,
                      !.hist.io_close = TRUE]
      close_inline == s1.vc.recursion = 0 /\ (s1.vc.nh = NULL \/ s1.nh.mutex = t)
      s2 == IF alerrno # 0 /\ alerrno # -1 THEN [s1 EXCEPT !.vc.lerrno = alerrno] ELSE s1
      s3 == [s2 EXCEPT !.vc.closed = IF alerrno = -1 THEN 1 ELSE -1]
  IN  IF close_inline THEN close_UnixNetVConnection(s3, t) ELSE s3

\* --------------------------------------------- lines 1194-1224: populate
\* The VC that thread B allocated takes the connection over.  ep_start is
\* what ep.start gives (-1: it failed with an errno other than EEXIST), locked
\* whether the try-lock of B's nh->mutex succeeded.
populate_unlisted(s, fd, ep_start, locked) ==
  IF ep_start < 0
  THEN [s EXCEPT !.other.netvc.life = "open", !.other.netvc.fd = fd,
                 !.other.netvc.thread = "B", !.other.res = EVENT_ERROR]
  ELSE [s EXCEPT !.other.netvc.life = "open", !.other.netvc.fd = fd,
                 !.other.netvc.thread = "B", !.other.netvc.ep = TRUE,
                 !.other.netvc.nh = "nhB",
                 !.other.res = IF locked THEN EVENT_DONE ELSE EVENT_ERROR]
populate(s, fd, ep_start, locked) ==
  IF ep_start < 0
  THEN [s EXCEPT !.other.netvc.life = "open", !.other.netvc.fd = fd,
                 !.other.netvc.thread = "B", !.other.res = EVENT_ERROR]
  ELSE IF ~locked
  THEN [s EXCEPT !.other.netvc.life = "open", !.other.netvc.fd = fd,
                 !.other.netvc.thread = "B", !.other.netvc.ep = TRUE,
                 !.other.netvc.nh = "nhB", !.other.res = EVENT_ERROR]
  ELSE [s EXCEPT !.other.netvc.life = "open", !.other.netvc.fd = fd,
                 !.other.netvc.thread = "B", !.other.netvc.ep = TRUE,
                 !.other.netvc.nh = "nhB",
                 !.other.open_list = @ \cup {"netvc"},
                 !.other.res = EVENT_DONE]

\* lines 1406, 670-697, 97-140: do_io_close of the VC that populate refused,
\* on thread B with recursion = 0.  Without a NetHandler the close is inline:
\* the socket is closed and the VC freed.  With B's nh->mutex held by
\* another thread the VC is only marked closed.
netvc_close(s) ==
  IF s.other.netvc.nh = NULL
  THEN [s EXCEPT !.other.netvc.life = "freed", !.other.netvc.fd = NO_FD,
                 !.other.netvc.ep = FALSE,
                 !.other.open_list = @ \ {"netvc"},
                 !.other.open_stat = @ - 1,
                 !.hist.fd_closed = @ \/ s.other.netvc.fd # NO_FD]
  ELSE [s EXCEPT !.other.netvc.closed = 1]

\* ------------------------------ lines 1365-1411: migrateToCurrentThread
\* lines 1403-1409: the new VC is populated with the connection fd.
migrate_populated(s) ==
  IF s.other.res # EVENT_DONE
  THEN [netvc_close(s) EXCEPT !.other.ret = NULL]
  ELSE [s EXCEPT !.other.ret = "netvc"]

\* Called on thread t = B for the VC of thread A (this->nh is not B's).
migrateToCurrentThread(s, t, ep_start, locked) ==
  migrate_populated(
    populate([do_io_close([s EXCEPT !.vc.fd = NO_FD, !.vc.ep = FALSE], -1, t)
                EXCEPT !.other.open_stat = @ + 1],
             s.vc.fd, ep_start, locked))

\* --------------------------------------- lines 699-730: do_io_shutdown
do_io_shutdown(s, howto) ==
  CASE howto = "IO_SHUTDOWN_READ" ->
         [s EXCEPT !.read.enabled = 0, !.read.buf = NoBuf, !.read.nbytes = 0,
                   !.vc.shutdown = {NET_VC_SHUTDOWN_READ}]
    [] howto = "IO_SHUTDOWN_WRITE" ->
         [s EXCEPT !.write.enabled = 0, !.write.buf = NoBuf, !.write.nbytes = 0,
                   !.vc.shutdown = {NET_VC_SHUTDOWN_WRITE}]
    [] howto = "IO_SHUTDOWN_READWRITE" ->
         [s EXCEPT !.read.enabled = 0, !.write.enabled = 0,
                   !.read.buf = NoBuf, !.read.nbytes = 0,
                   !.write.buf = NoBuf, !.write.nbytes = 0,
                   !.vc.shutdown = {NET_VC_SHUTDOWN_READ, NET_VC_SHUTDOWN_WRITE}]

\* ------------------------------------------- lines 757-787: send_OOB
\* buf is where the data starts, counted in bytes from the start of what the
\* continuation handed to its send_OOB.
send_OOB(s, cont, buf, len, k) ==
  LET written == syscall(k, len)
      f == [NoFrame EXCEPT !.pc = "oob", !.held = {mutex_of(NULL)}]
  IN  IF written = len THEN handleEvent(s, cont, VC_EVENT_OOB_COMPLETE, f)
      ELSE IF written = 0 THEN handleEvent(s, cont, VC_EVENT_EOS, f)
      ELSE IF written > 0 /\ written < len
      THEN [s EXCEPT !.vc.oob_ptr = [server_cont |-> cont, data |-> buf + written,
                                     length |-> len - written]]
      ELSE [s EXCEPT !.vc.oob_ptr = [server_cont |-> cont, data |-> buf,
                                     length |-> len]]

\* ------------------------------------- lines 732-741: retry_OOB_send
retry_OOB_send(s, k) ==
  send_OOB([s EXCEPT !.vc.oob_ptr = NoOob],
           s.vc.oob_ptr.server_cont, s.vc.oob_ptr.data, s.vc.oob_ptr.length, k)

\* --------------------------------------- lines 1060-1110: acceptEvent
\* (built with USE_EDGE_TRIGGER).  cancelled is action_.cancelled, ep_start
\* the result of ep.start.
acceptEvent(s, cancelled, ep_start) ==
  LET s1 == [s EXCEPT !.vc.thread = "A", !.nh.mutex = "A"]
  IN  IF cancelled THEN free(s1)
      ELSE LET s2 == [s1 EXCEPT !.vc.nh = "nhA"]
           IN  IF ep_start < 0 THEN close_UnixNetVConnection(s2, "A")
               ELSE LET s3 == [s2 EXCEPT !.vc.ep = TRUE,
                                         !.vc.life = "open",
                                         !.nh.open_list = @ \cup {VC},
                                         !.read.triggered = 1,
                                         !.nh.read_ready_list = @ \cup {VC}]
                        s4 == IF s3.vc.inactivity_timeout_in # 0
                              THEN [s3 EXCEPT !.vc.next_inactivity_timeout_at = LATER]
                              ELSE s3
                        s5 == IF s4.vc.active_timeout_in # 0
                              THEN [s4 EXCEPT !.vc.next_activity_timeout_at = LATER]
                              ELSE s4
                    IN  handleEvent(s5, "c1", NET_EVENT_ACCEPT,
                                    [NoFrame EXCEPT !.pc = "accept"])

\* ------------------------------------------ lines 1226-1309: connectUp
\* lines 1234, 1277, 1306: the action's continuation is told of the failure;
\* free(t) follows when it returns.
open_failed(s, data) ==
  handleEvent(s, "c1", NET_EVENT_OPEN_FAILED,
              [NoFrame EXCEPT !.pc = "open_failed", !.data = data])

\* lines 1289-1302: the connection is up.
connected(s) ==
  handleEvent([s EXCEPT !.vc.nh = "nhA", !.vc.life = "open",
                        !.nh.open_list = @ \cup {VC}],
              "c1", NET_EVENT_OPEN, [NoFrame EXCEPT !.pc = "open", !.data = VC])

\* throttle is what check_net_throttle says, fd the caller's descriptor or
\* NO_FD, open_res, ep_start and connect_res what con.open, ep.start and
\* con.connect give.  A con.open or con.connect that fails leaves no socket
\* behind; when ep.start fails the socket is still in con.fd.
connectUp(s, t, fd, throttle, open_res, ep_start, connect_res) ==
  IF throttle THEN open_failed([s EXCEPT !.vc.thread = t], "-ENET_THROTTLING")
  ELSE IF fd = NO_FD /\ open_res # 0
  THEN open_failed([s EXCEPT !.vc.thread = t, !.vc.fd = NO_FD], "res")
  ELSE IF ep_start < 0
  THEN open_failed([s EXCEPT !.vc.thread = t, !.vc.fd = 0], "0")
  ELSE IF fd = NO_FD /\ connect_res # 0
  THEN open_failed([s EXCEPT !.vc.thread = t, !.vc.fd = NO_FD, !.vc.ep = TRUE],
                   "res")
  ELSE connected([s EXCEPT !.vc.thread = t, !.vc.fd = 0, !.vc.ep = TRUE])

\* ------------------------- the NetHandler's loop (sections 4.1 and 6)
\* Flush one enable list: move the VC to the ready list, in_enabled_list = 0.
flush_enable_list(s, d) ==
  IF InList(s.nh[EnableOf(d)], VC)
  THEN [in_or_enqueue(s, d) EXCEPT !.nh[EnableOf(d)] = <<>>,
                                   ![d].in_enabled_list = 0]
  ELSE s

\* The reactor saw readiness in direction d: triggered is set and the VC is
\* on the ready list.
reactor_ready(s, d) == in_or_enqueue([s EXCEPT ![d].triggered = 1], d)

\* ============================================================ the machine
\* The buffers a continuation hands over: a MIOBuffer to read into (the
\* writable bytes of each block) and a reader to write from (the unread bytes
\* of each block, and the writable bytes left in its buffer).
Buf(blocks, w) == [null |-> FALSE, blocks |-> blocks, wavail |-> w, pos |-> 0]
LongChain == [i \in 1..(NET_MAX_IOV + 1) |-> 1]

Kernel == {-EAGAIN, -ECONNRESET, -EPIPE, 0, 1, FULL}
OobKernel == {-EAGAIN, -ENOTCONN, 0, 1, FULL}
HandShake == {EVENT_ERROR, SSL_HANDSHAKE_WANT_READ, SSL_HANDSHAKE_WANT_ACCEPT,
              SSL_HANDSHAKE_WANT_WRITE, SSL_HANDSHAKE_WANT_CONNECT,
              EVENT_DONE, EVENT_CONT}
Dirs == {"read", "write"}
\* What sslStartHandShake can give now (it is not called once the handshake
\* is complete).
HandShakeNow == IF vc.handshake_complete THEN {EVENT_DONE} ELSE HandShake

\* The VC that allocate_vc gives to thread B (line 1404) before populate.
NewVC == [life |-> "none", fd |-> NO_FD, ep |-> FALSE, nh |-> NULL,
          thread |-> NULL, closed |-> 0]

\* The state a NetAccept leaves a new connection in, before acceptEvent.
InitVC(e) ==
  /\ env = e
  /\ vc = [life |-> "new", thread |-> NULL, nh |-> NULL, fd |-> 0, ep |-> FALSE,
           closed |-> 0, recursion |-> 0, lerrno |-> 0, shutdown |-> {},
           inactivity_timeout_in |-> e.inactivity_timeout_in,
           active_timeout_in |-> 0,
           next_inactivity_timeout_at |-> 0, next_activity_timeout_at |-> 0,
           write_buffer_empty_event |-> EVENT_NONE,
           handshake_complete |-> ~e.ssl,
           oob_ptr |-> NoOob]
  /\ read = [enabled |-> 0, triggered |-> 0, in_enabled_list |-> 0, op |-> VIO_NONE,
             nbytes |-> 0, ndone |-> 0, cont |-> NULL, mutex |-> NULL, buf |-> NoBuf]
  /\ write = [enabled |-> 0, triggered |-> 0, in_enabled_list |-> 0, op |-> VIO_NONE,
              nbytes |-> 0, ndone |-> 0, cont |-> NULL, mutex |-> NULL, buf |-> NoBuf]
  /\ nh = [mutex |-> NULL, phase |-> "idle", open_list |-> {},
           read_ready_list |-> {}, write_ready_list |-> {},
           read_enable_list |-> <<>>, write_enable_list |-> <<>>]
  /\ stack = <<>>
  /\ other = [lock |-> NULL, netvc |-> NewVC, open_list |-> {}, open_stat |-> 1,
              res |-> NULL, ret |-> NULL, push |-> <<>>]
  /\ step = [name |-> "Init", turn |-> 0]
  /\ hist = [closes |-> 0, close_rec |-> FALSE, close_thread_ok |-> TRUE,
             touched |-> FALSE, io_close |-> FALSE, closers |-> {},
             ev_after_close |-> FALSE, rcomp |-> 0, wcomp |-> 0, comp_ok |-> TRUE,
             rsys |-> 0, wsys |-> 0, sig |-> <<>>, wake |-> FALSE,
             again |-> <<>>, fd_closed |-> FALSE, mig |-> <<>>,
             pass |-> <<>>, res |-> <<>>, rsock |-> 0, rsum |-> 0, wsock |-> 0, wsum |-> 0]

\* The state a step starts from: hist.rsys, hist.wsys, hist.sig and hist.pass
\* are the step's own syscalls, the events it delivers and the passes it runs;
\* hist.again is where the last write pass stopped for EAGAIN or ENOTCONN,
\* forgotten as soon as a handler or thread B runs.
Begin == [State EXCEPT !.hist.rsys = 0, !.hist.wsys = 0, !.hist.sig = <<>>,
                       !.hist.wake = FALSE,
                       !.hist.again =
                          IF stack = <<>> /\ other.lock = NULL THEN @ ELSE <<>>,
                       !.hist.pass = <<>>, !.hist.res = <<>>]

\* Thread A is back in its event loop: nothing of it holds nh->mutex.
Settle(s) ==
  IF s.stack = <<>> /\ s.nh.phase \in {"idle", "end"}
  THEN [s EXCEPT !.nh.mutex = NULL, !.nh.phase = "idle"]
  ELSE s

\* The step called `name` is taken.
Took(name) == step' = [name |-> name, turn |-> 1 - step.turn]
Step(name) == IF env.track THEN Took(name) ELSE step' = step

Becomes(s) ==
  /\ Depth(s) <= MaxDepth
  /\ vc' = s.vc /\ read' = s.read /\ write' = s.write /\ nh' = s.nh
  /\ stack' = s.stack /\ other' = s.other /\ hist' = s.hist
  /\ env' = env

\* ------------------------------------------------ thread A's event loop
AcceptEvent ==
  /\ Step("AcceptEvent")
  /\ vc.life = "new"
  /\ \E cancelled \in BOOLEAN, ep_start \in {0, -1} :
       Becomes(Settle(acceptEvent(Begin, cancelled, ep_start)))

\* The NetHandler's pass begins: it takes its mutex, flushes the enable
\* lists and polls the reactor.
\* Thread A runs connectUp on a new VC.
ConnectUp ==
  /\ Step("ConnectUp")
  /\ vc.life = "new" /\ stack = <<>>
  /\ \E fd \in {NO_FD, 0}, throttle \in BOOLEAN,
        open_res \in {0, -1}, ep_start \in {0, -1}, connect_res \in {0, -1} :
       Becomes(connectUp([Begin EXCEPT !.nh.mutex = "A"], "A", fd, throttle,
                         open_res, ep_start, connect_res))

CanStart == vc.life = "open" /\ nh.phase = "idle" /\ stack = <<>>

NetHandlerStart ==
  /\ Step("NetHandlerStart")
  /\ CanStart
  /\ \E rr \in BOOLEAN, wr \in BOOLEAN :
       LET s0 == [Begin EXCEPT !.nh.mutex = "A", !.nh.phase = "read"]
           s1 == flush_enable_list(flush_enable_list(s0, "read"), "write")
           s2 == IF rr THEN reactor_ready(s1, "read") ELSE s1
           s3 == IF wr THEN reactor_ready(s2, "write") ELSE s2
       IN  /\ (rr \/ wr) => vc.ep
           /\ Becomes(s3)

\* An aborted process takes no further step.
CanDrain(phase) == nh.phase = phase /\ stack = <<>> /\ vc.life # "aborted"

ReadReady ==
  /\ Step("ReadReady")
  /\ CanDrain("read")
  /\ LET s0 == [Begin EXCEPT !.nh.phase = "write"]
     IN  IF VC \in nh.read_ready_list
         THEN \E ks \in env.answers : Becomes(net_read_io(s0, ks))
         ELSE Becomes(s0)

WriteReady ==
  /\ Step("WriteReady")
  /\ CanDrain("write")
  /\ LET s0 == [Begin EXCEPT !.nh.phase = "end"]
     IN  IF VC \in nh.write_ready_list
         THEN \E ks \in env.answers, ret \in HandShakeNow :
                Becomes(Settle(write_to_net(s0, ret, EPIPE, ks)))
         ELSE Becomes(Settle(s0))

MainEvent ==
  /\ Step("MainEvent")
  /\ vc.life = "open" /\ nh.phase = "idle" /\ stack = <<>>
  /\ \E event \in {EVENT_IMMEDIATE, EVENT_INTERVAL} :
       /\ event = EVENT_INTERVAL => vc.active_timeout_in # 0
       /\ Becomes(Settle(mainEvent([Begin EXCEPT !.nh.mutex = "A"], event)))

TimePasses ==
  /\ Step("TimePasses")
  /\ vc.life = "open"
  /\ \E at \in {"next_inactivity_timeout_at", "next_activity_timeout_at"} :
       /\ vc[at] = LATER
       /\ vc' = [vc EXCEPT ![at] = DUE]
  /\ UNCHANGED <<env, read, write, nh, stack, other, hist>>

RetryOOB ==
  /\ Step("RetryOOB")
  /\ vc.life = "open" /\ nh.phase = "idle" /\ stack = <<>>
  /\ vc.oob_ptr # NoOob
  /\ \E k \in OobKernel : Becomes(retry_OOB_send(Begin, k))

\* The continuation on top of thread A's stack returns.
Resume(s, ks) ==
  LET f == Top(s)
      s1 == Pop(s)
  IN  IF f.pc \in {"accept", "oob", "open"} THEN s1
      ELSE IF f.pc = "open_failed" THEN free(s1)
      ELSE signal_return([s1 EXCEPT !.hist.touched = @ \/ s.vc.life = "freed"], f, ks)

CanReturn == stack # <<>>

CallbackReturn ==
  /\ Step("CallbackReturn")
  /\ CanReturn
  /\ \E ks \in IF Top(State).pc = "write_refill" THEN env.answers ELSE {<<>>} :
       Becomes(Settle(Resume(Begin, ks)))

\* ------------------------------------ the continuations running on thread A
\* The handler on top of thread A's stack uses the connection.  A handler
\* that called do_io_close does not use the connection again, and a handler
\* works on a VIO only under that VIO's mutex.
User == IF stack = <<>> THEN NULL ELSE Top(State).cont

InHandler ==
  /\ stack # <<>> /\ vc.life = "open"
  /\ User # NULL /\ User \notin hist.closers

Owns(d) == State[d].mutex = NULL \/ State[d].mutex # other.lock

\* A VIO with an operation has a buffer when it is reenabled.
Usable(d) == State[d].op = VIO_NONE \/ State[d].buf # NoBuf

Closes(s, user) == [s EXCEPT !.hist.closers = @ \cup {user}]

A_do_io_read ==
  /\ Step("A_do_io_read")
  /\ InHandler /\ Owns("read")
  /\ \E c \in env.conts, nbytes \in env.nbytes, buf \in env.rbufs :
       /\ mutex_of(c) # other.lock
       /\ Becomes(do_io_read(Begin, c, nbytes, buf, "A"))

A_do_io_write ==
  /\ Step("A_do_io_write")
  /\ InHandler /\ Owns("write")
  /\ \E c \in env.conts, nbytes \in env.nbytes, buf \in env.wbufs :
       /\ mutex_of(c) # other.lock
       /\ Becomes(do_io_write(Begin, c, nbytes, buf, "A"))

A_do_io_close ==
  /\ Step("A_do_io_close")
  /\ InHandler
  /\ \E alerrno \in env.alerrno :
       Becomes(Settle(do_io_close(Closes(Begin, User), alerrno, "A")))

A_do_io_shutdown ==
  /\ Step("A_do_io_shutdown")
  /\ InHandler /\ Owns("read") /\ Owns("write")
  /\ \E howto \in {"IO_SHUTDOWN_READ", "IO_SHUTDOWN_WRITE", "IO_SHUTDOWN_READWRITE"} :
       Becomes(do_io_shutdown(Begin, howto))

A_reenable ==
  /\ Step("A_reenable")
  /\ InHandler
  /\ \E d \in Dirs :
       /\ Owns(d) /\ Usable(d)
       /\ Becomes(reenable(Begin, d, "A"))

A_reenable_re ==
  /\ Step("A_reenable_re")
  /\ InHandler
  /\ \E d \in Dirs, ks \in env.answers, ret \in HandShakeNow :
       /\ Owns(d) /\ Usable(d)
       /\ Becomes(reenable_re(Begin, d, "A", ret, EPIPE, ks))

A_send_OOB ==
  /\ Step("A_send_OOB")
  /\ InHandler
  /\ vc.oob_ptr = NoOob
  /\ \E c \in env.conts, len \in 1..MaxOob, k \in OobKernel :
       Becomes(send_OOB(Begin, c, 0, len, k))

A_cancel_OOB ==
  /\ Step("A_cancel_OOB")
  /\ InHandler
  /\ vc.oob_ptr # NoOob
  /\ Becomes(cancel_OOB(Begin))

\* The handler puts a block of data into the buffer it writes from, or takes
\* the data out of the buffer it reads into, which leaves a writable block.
A_produce ==
  /\ Step("A_produce")
  /\ InHandler /\ Owns("write")
  /\ write.buf # NoBuf /\ write.buf.blocks # <<MaxBlock>>
  /\ Becomes([Begin EXCEPT !.write.buf.blocks = <<MaxBlock>>])

\* The handler asks for an event when its write buffer becomes empty
\* (specification, section 4.7).
TrapEvents == {VC_EVENT_WRITE_READY, VC_EVENT_WRITE_COMPLETE}

A_trapWriteBufferEmpty ==
  /\ Step("A_trapWriteBufferEmpty")
  /\ InHandler /\ Owns("write")
  /\ write.op = VIO_WRITE /\ vc.write_buffer_empty_event = EVENT_NONE
  /\ \E event \in TrapEvents :
       Becomes([Begin EXCEPT !.vc.write_buffer_empty_event = event])

A_consume ==
  /\ Step("A_consume")
  /\ InHandler /\ Owns("read")
  /\ read.buf # NoBuf /\ read.buf.blocks # <<MaxBlock>>
  /\ Becomes([Begin EXCEPT !.read.buf.blocks = <<MaxBlock>>])

\* ------------------------------------------------------------- thread B
\* A continuation running on thread B under the mutex other.lock.
HeldByA == UNION {stack[i].held : i \in 1..Len(stack)}

B_lock ==
  /\ Step("B_lock")
  /\ vc.life = "open" /\ other.lock = NULL
  /\ "B" \notin hist.closers
  /\ \E c \in env.conts :
       /\ mutex_of(c) \notin HeldByA
       /\ mutex_of(c) \in {read.mutex, write.mutex}
       /\ other' = [other EXCEPT !.lock = mutex_of(c)]
  /\ UNCHANGED <<env, vc, read, write, nh, stack, hist>>

CanUnlock == other.lock # NULL /\ other.push = <<>>

B_unlock ==
  /\ Step("B_unlock")
  /\ CanUnlock
  /\ other' = [other EXCEPT !.lock = NULL]
  /\ UNCHANGED <<env, vc, read, write, nh, stack, hist>>

InB(d) ==
  /\ vc.life = "open" /\ "B" \notin hist.closers
  /\ other.lock # NULL /\ State[d].mutex = other.lock
  /\ other.push = <<>>

B_do_io_read ==
  /\ Step("B_do_io_read")
  /\ InB("read")
  /\ \E c \in env.conts, nbytes \in env.nbytes, buf \in env.rbufs :
       /\ mutex_of(c) = other.lock
       /\ Becomes(do_io_read(Begin, c, nbytes, buf, "B"))

B_do_io_write ==
  /\ Step("B_do_io_write")
  /\ InB("write")
  /\ \E c \in env.conts, nbytes \in env.nbytes, buf \in env.wbufs :
       /\ mutex_of(c) = other.lock
       /\ Becomes(do_io_write(Begin, c, nbytes, buf, "B"))

B_reenable ==
  /\ Step("B_reenable")
  /\ \E d \in Dirs :
       /\ InB(d) /\ Usable(d)
       /\ Becomes(reenable(Begin, d, "B"))

\* Thread B's reenable of a disabled direction while thread A holds
\* nh->mutex, in the two steps between which thread A can run: the test and
\* set of in_enabled_list, then the push.
B_reenable_mark ==
  /\ Step("B_reenable_mark")
  /\ nh.mutex = "A" /\ vc.thread # NULL
  /\ \E d \in Dirs :
       /\ InB(d) /\ Usable(d)
       /\ State[d].enabled = 0 /\ State[d].in_enabled_list = 0
       /\ Becomes(reenable_mark(set_enabled(Begin, d), d))

B_reenable_link ==
  /\ Step("B_reenable_link")
  /\ other.push # <<>>
  /\ \E cached \in BOOLEAN :
       Becomes(reenable_link(Begin, other.push[1], cached))

\* Thread B takes over a connection that no handler of thread A is using.
B_migrate ==
  /\ Step("B_migrate")
  /\ vc.life = "open" /\ vc.closed = 0 /\ stack = <<>>
  /\ other.lock = NULL /\ other.netvc.life = "none"
  /\ \E ep_start \in {0, -1}, locked \in BOOLEAN :
       Becomes([migrateToCurrentThread(Begin, "B", ep_start, locked)
                  EXCEPT !.hist.mig = <<[fd |-> vc.fd, stat |-> other.open_stat]>>])

B_do_io_close ==
  /\ Step("B_do_io_close")
  /\ InB("read") \/ InB("write")
  /\ \E alerrno \in env.alerrno :
       Becomes(do_io_close(Closes(Begin, "B"), alerrno, "B"))

\* Thread B, under a VIO's mutex, finds nh->mutex free, takes it, closes the
\* connection and gives nh->mutex back: thread A is in its event loop.
B_do_io_close_nh ==
  /\ Step("B_do_io_close_nh")
  /\ InB("read") \/ InB("write")
  /\ nh.mutex = NULL /\ stack = <<>>
  /\ \E alerrno \in env.alerrno :
       Becomes([do_io_close(Closes([Begin EXCEPT !.nh.mutex = "B"], "B"),
                            alerrno, "B")
                  EXCEPT !.nh.mutex = NULL])

\* ------------------------------------------------------ the specifications
\* Spec: one continuation on each thread; the ready and enable lists under
\* the reactor, the passes, the SSL handshake and the reenables of both
\* threads.
EnvLists ==
  [conts |-> {"c1"}, nbytes |-> {MaxBytes},
   rbufs |-> {Buf(<<MaxBlock>>, 0)}, wbufs |-> {Buf(<<MaxBlock>>, 0)},
   answers |-> {<<k>> : k \in Kernel}, alerrno |-> {-1},
   ssl |-> TRUE, inactivity_timeout_in |-> 0, track |-> FALSE, debug |-> FALSE]

Init == InitVC(EnvLists)

Next ==
  \/ AcceptEvent
  \/ NetHandlerStart
  \/ ReadReady
  \/ WriteReady
  \/ CallbackReturn
  \/ A_do_io_read
  \/ A_do_io_write
  \/ A_reenable
  \/ A_reenable_re
  \/ B_lock
  \/ B_unlock
  \/ B_do_io_read
  \/ B_reenable

Spec == Init /\ [][Next]_vars

\* SpecClose: two continuations on thread A; every way of closing the
\* connection (do_io_close inline and deferred, the passes, mainEvent, the
\* failure of ep.start) and nested callbacks, in a debug and in a release
\* build.
EnvClose(debug) ==
  [conts |-> {"c1", "c2"}, nbytes |-> {MaxBytes},
   rbufs |-> {Buf(<<MaxBlock>>, 0)},
   wbufs |-> {Buf(<<MaxBlock>>, 0)},
   answers |-> {<<k>> : k \in Kernel}, alerrno |-> {-1},
   ssl |-> FALSE, inactivity_timeout_in |-> 1, track |-> FALSE, debug |-> debug]

InitClose == \E debug \in BOOLEAN : InitVC(EnvClose(debug))

NextClose ==
  \/ AcceptEvent
  \/ NetHandlerStart
  \/ ReadReady
  \/ WriteReady
  \/ MainEvent
  \/ TimePasses
  \/ CallbackReturn
  \/ A_do_io_read
  \/ A_do_io_write
  \/ A_do_io_close
  \/ A_reenable_re

SpecClose == InitClose /\ [][NextClose]_vars

\* SpecIO: the bytes of both directions; buffers of one block and of more
\* blocks than one readv/writev takes, kernel answers for two calls of a
\* pass, nbytes from 0 to more than NET_MAX_IOV.
\* A run uses the connection in one direction.
EnvIO(d) ==
  [conts |-> {"c1"}, nbytes |-> (0..MaxBytes) \cup {NET_MAX_IOV + 1},
   rbufs |-> IF d = "read"
             THEN {Buf(<<n>>, 0) : n \in 0..MaxBlock} \cup {Buf(LongChain, 0), NoBuf}
             ELSE {},
   wbufs |-> IF d = "write"
             THEN {Buf(<<n>>, w) : n \in 0..MaxBlock, w \in {0, 1}}
                    \cup {Buf(LongChain, 0), NoBuf}
             ELSE {},
   answers |-> {<<k>> : k \in Kernel} \cup {<<FULL, k>> : k \in Kernel},
   alerrno |-> {-1},
   ssl |-> FALSE, inactivity_timeout_in |-> 0, track |-> FALSE, debug |-> FALSE]

InitIO == \E d \in Dirs : InitVC(EnvIO(d))

NextIO ==
  \/ AcceptEvent
  \/ NetHandlerStart
  \/ ReadReady
  \/ WriteReady
  \/ CallbackReturn
  \/ A_do_io_read
  \/ A_do_io_write
  \/ A_do_io_shutdown
  \/ A_do_io_close
  \/ A_reenable
  \/ A_produce
  \/ A_consume

SpecIO == InitIO /\ [][NextIO]_vars

\* SpecOob: one continuation on thread A that sends out-of-band data, writes
\* from a buffer it refills, and closes the connection.
EnvOob ==
  [conts |-> {"c1"}, nbytes |-> {MaxBytes},
   rbufs |-> {Buf(<<MaxBlock>>, 0)},
   wbufs |-> {Buf(<<0>>, 1)},
   answers |-> {<<k>> : k \in Kernel}, alerrno |-> {-1},
   ssl |-> FALSE, inactivity_timeout_in |-> 0, track |-> FALSE, debug |-> FALSE]

InitOob == InitVC(EnvOob)

NextOob ==
  \/ AcceptEvent
  \/ NetHandlerStart
  \/ ReadReady
  \/ WriteReady
  \/ RetryOOB
  \/ CallbackReturn
  \/ A_do_io_read
  \/ A_do_io_write
  \/ A_do_io_close
  \/ A_send_OOB
  \/ A_cancel_OOB
  \/ A_produce

SpecOob == InitOob /\ [][NextOob]_vars

\* SpecLive: do_io_close from a handler on thread A and from thread B, with
\* no timeout armed, under a NetHandler whose passes are scheduled fairly:
\* a pass that can begin begins, a pass that began drains both ready
\* lists, a handler that was called returns, and thread B gives its mutex
\* back.
EnvLive ==
  [conts |-> {"c1"}, nbytes |-> {MaxBytes},
   rbufs |-> {Buf(<<MaxBlock>>, 0)}, wbufs |-> {Buf(<<MaxBlock>>, 0)},
   answers |-> {<<k>> : k \in Kernel}, alerrno |-> {-1},
   ssl |-> FALSE, inactivity_timeout_in |-> 0, track |-> TRUE, debug |-> FALSE]

InitLive == InitVC(EnvLive)

NextLive ==
  \/ AcceptEvent
  \/ NetHandlerStart
  \/ ReadReady
  \/ WriteReady
  \/ CallbackReturn
  \/ A_do_io_read
  \/ A_do_io_write
  \/ A_do_io_close
  \/ A_reenable
  \/ B_lock
  \/ B_unlock
  \/ B_do_io_close

\* The steps of an action are the steps that leave its name in `step`, and
\* the action is enabled when its guard holds.
SpecLive ==
  /\ InitLive /\ [][NextLive]_vars
  /\ WF_step(CanStart /\ Took("NetHandlerStart"))
  /\ WF_step(CanDrain("read") /\ Took("ReadReady"))
  /\ WF_step(CanDrain("write") /\ Took("WriteReady"))
  /\ WF_step(CanReturn /\ Took("CallbackReturn"))
  /\ WF_step(CanUnlock /\ Took("B_unlock"))

\* SpecFold: the calls of one read pass (lines 293-348) as a function of the
\* writer's block chain, of toread and of what the kernel answers: chains of
\* two blocks, chains of more blocks than one readv takes, short counts,
\* end of stream and errors at the first and at the second call.
FoldChains ==
  {<<a, b>> : a, b \in 0..MaxFold}
    \cup {LongChain, [i \in 1..NET_MAX_IOV |-> 1] \o <<MaxFold>>}

FoldAnswers ==
  {<<k1, k2>> : k1, k2 \in {-EAGAIN, -ECONNRESET, 0, 1, 2, FULL}}

\* What lines 293-348 leave: L from the loop, r after the summary.
read_calls_of(blocks, toread, L) ==
  [d |-> "calls", blocks |-> blocks, toread |-> toread, L |-> L,
   r |-> fold(L.total_read, L.rattempted, L.r)]

ReadCalls ==
  /\ Step("ReadCalls")
  /\ \E blocks \in FoldChains, ks \in FoldAnswers :
       \E toread \in 1..Sum(blocks) :
         Becomes([Begin EXCEPT !.hist.res =
           <<read_calls_of(blocks, toread,
                           read_loop(blocks, toread, 0, ks, 1, 0))>>])

EnvFold ==
  [conts |-> {}, nbytes |-> {}, rbufs |-> {}, wbufs |-> {},
   answers |-> FoldAnswers, alerrno |-> {},
   ssl |-> FALSE, inactivity_timeout_in |-> 0, track |-> FALSE, debug |-> FALSE]

InitFold == InitVC(EnvFold)

\* SpecAgain: write passes on a socket that is not ready (EAGAIN) or not yet
\* connected (ENOTCONN), the reactor and the handler's writes.
EnvAgain ==
  [conts |-> {"c1"}, nbytes |-> {MaxBytes, NET_MAX_IOV + 1},
   rbufs |-> {Buf(<<MaxBlock>>, 0)},
   wbufs |-> {Buf(<<n>>, 0) : n \in 0..MaxBlock} \cup {Buf(LongChain, 0)},
   answers |-> {<<k>> : k \in {-EAGAIN, -ENOTCONN, 1, FULL}}
                  \cup {<<FULL, k>> : k \in {-EAGAIN, -ENOTCONN}},
   alerrno |-> {-1},
   ssl |-> FALSE, inactivity_timeout_in |-> 0, track |-> FALSE, debug |-> FALSE]

InitAgain == InitVC(EnvAgain)

NextAgain ==
  \/ AcceptEvent
  \/ NetHandlerStart
  \/ ReadReady
  \/ WriteReady
  \/ CallbackReturn
  \/ A_do_io_read
  \/ A_do_io_write
  \/ A_reenable
  \/ A_produce

SpecAgain == InitAgain /\ [][NextAgain]_vars

\* SpecMigrate: thread B takes the connection over with
\* migrateToCurrentThread while thread A's NetHandler and timeouts go on.
EnvMigrate ==
  [conts |-> {"c1"}, nbytes |-> {MaxBytes},
   rbufs |-> {Buf(<<MaxBlock>>, 0)},
   wbufs |-> {Buf(<<MaxBlock>>, 0)},
   answers |-> {<<k>> : k \in {-EAGAIN, 0, 1}}, alerrno |-> {-1},
   ssl |-> FALSE, inactivity_timeout_in |-> 1, track |-> FALSE, debug |-> FALSE]

InitMigrate == InitVC(EnvMigrate)

NextMigrate ==
  \/ AcceptEvent
  \/ NetHandlerStart
  \/ ReadReady
  \/ WriteReady
  \/ MainEvent
  \/ TimePasses
  \/ CallbackReturn
  \/ A_do_io_read
  \/ A_do_io_write
  \/ B_migrate

SpecMigrate == InitMigrate /\ [][NextMigrate]_vars

\* SpecConnect: an outbound connection from connectUp on, in a release and
\* in a debug build.
EnvConnect(debug) ==
  [conts |-> {"c1"}, nbytes |-> {MaxBytes},
   rbufs |-> {Buf(<<MaxBlock>>, 0)},
   wbufs |-> {Buf(<<MaxBlock>>, 0)},
   answers |-> {<<k>> : k \in {-EAGAIN, 0, 1}}, alerrno |-> {-1},
   ssl |-> FALSE, inactivity_timeout_in |-> 0, track |-> FALSE, debug |-> debug]

InitConnect == \E debug \in BOOLEAN : InitVC(EnvConnect(debug))

NextConnect ==
  \/ ConnectUp
  \/ NetHandlerStart
  \/ ReadReady
  \/ WriteReady
  \/ CallbackReturn
  \/ A_do_io_read
  \/ A_do_io_write
  \/ A_do_io_close

SpecConnect == InitConnect /\ [][NextConnect]_vars

\* SpecEnd: how a connection ends: two continuations and VIOs without a
\* continuation, closes with and without an error, shutdowns, both timeouts,
\* end of stream and errors from the kernel, handlers that run passes.
\* A run has either two continuations, or one and VIOs without a continuation.
EnvEnd(two) ==
  [conts |-> IF two THEN {"c1", "c2"} ELSE {"c1", NULL},
   nbytes |-> {MaxBytes},
   rbufs |-> {Buf(<<MaxBlock>>, 0)},
   wbufs |-> {Buf(<<MaxBlock>>, 0)},
   answers |-> IF two THEN {<<-EPIPE>>} ELSE {<<k>> : k \in {-EPIPE, 0, 1}},
   alerrno |-> IF two THEN {-1, ECONNRESET} ELSE {-1},
   ssl |-> FALSE, inactivity_timeout_in |-> 1, track |-> FALSE, debug |-> FALSE]

InitEnd == \E two \in BOOLEAN : InitVC(EnvEnd(two))

NextEnd ==
  \/ AcceptEvent
  \/ NetHandlerStart
  \/ ReadReady
  \/ WriteReady
  \/ MainEvent
  \/ TimePasses
  \/ CallbackReturn
  \/ A_do_io_read
  \/ A_do_io_write
  \/ A_do_io_close
  \/ A_do_io_shutdown
  \/ A_reenable_re

SpecEnd == InitEnd /\ [][NextEnd]_vars

\* SpecNull: VIOs with no continuation on a connection that is read, written,
\* timed out and closed; the null-continuation signals of every handler occur.
NextNull ==
  \/ AcceptEvent
  \/ NetHandlerStart
  \/ ReadReady
  \/ WriteReady
  \/ MainEvent
  \/ TimePasses
  \/ CallbackReturn
  \/ A_do_io_read
  \/ A_do_io_write
  \/ A_do_io_close
  \/ A_reenable_re

SpecNull == InitVC(EnvEnd(FALSE)) /\ [][NextNull]_vars

\* SpecTimeout: the inactivity timeout alone: no pass of the net handler runs,
\* the handlers of the timeout close, shut down, re-enable and set up I/O.
NextTimeout ==
  \/ AcceptEvent
  \/ MainEvent
  \/ TimePasses
  \/ CallbackReturn
  \/ A_do_io_read
  \/ A_do_io_write
  \/ A_do_io_close
  \/ A_do_io_shutdown
  \/ A_reenable_re

SpecTimeout ==
  InitVC([EnvClose(FALSE) EXCEPT !.answers = {<<k>> : k \in {-EPIPE, 1}}])
    /\ [][NextTimeout]_vars

\* SpecRace: continuation c1 on thread A and c2 on thread B; B reenables its
\* direction across threads, one step at a time, while A's passes and handlers
\* run and close the connection.
EnvRace ==
  [conts |-> {"c1", "c2"}, nbytes |-> {MaxBytes},
   rbufs |-> {Buf(<<MaxBlock>>, 0)},
   wbufs |-> {Buf(<<MaxBlock>>, 0)},
   answers |-> {<<k>> : k \in {-EAGAIN, 0, 1}}, alerrno |-> {-1},
   ssl |-> FALSE, inactivity_timeout_in |-> 0, track |-> FALSE, debug |-> FALSE]

NextRace ==
  \/ AcceptEvent
  \/ NetHandlerStart
  \/ ReadReady
  \/ WriteReady
  \/ CallbackReturn
  \/ A_do_io_read
  \/ A_do_io_write
  \/ A_do_io_close
  \/ B_lock
  \/ B_unlock
  \/ B_reenable
  \/ B_reenable_mark
  \/ B_reenable_link

SpecRace == InitVC(EnvRace) /\ [][NextRace]_vars

\* SpecTrap: two continuations that hand the VIOs to each other inside the
\* callbacks of a pass; writes of more bytes than the reader holds, from a
\* buffer the handler refills, with the write-buffer-empty trap.
EnvTrap ==
  [conts |-> {"c1", "c2"}, nbytes |-> {MaxBytes, NET_MAX_IOV + 1},
   rbufs |-> {Buf(<<MaxBlock>>, 0)},
   wbufs |-> {Buf(<<MaxBlock>>, w) : w \in {0, 1}},
   answers |-> {<<k>> : k \in {-EAGAIN, 1, FULL}}, alerrno |-> {-1},
   ssl |-> FALSE, inactivity_timeout_in |-> 0, track |-> FALSE, debug |-> FALSE]

NextTrap ==
  \/ AcceptEvent
  \/ NetHandlerStart
  \/ ReadReady
  \/ WriteReady
  \/ CallbackReturn
  \/ A_do_io_read
  \/ A_do_io_write
  \/ A_produce
  \/ A_trapWriteBufferEmpty

SpecTrap == InitVC(EnvTrap) /\ [][NextTrap]_vars

\* SpecOwner: who closes the connection: a handler on thread A, thread B
\* with and without nh->mutex, a migration to thread B, thread A's passes.
NextOwner ==
  \/ AcceptEvent
  \/ NetHandlerStart
  \/ ReadReady
  \/ WriteReady
  \/ CallbackReturn
  \/ A_do_io_read
  \/ A_do_io_write
  \/ A_do_io_close
  \/ B_lock
  \/ B_unlock
  \/ B_do_io_close
  \/ B_do_io_close_nh
  \/ B_migrate

SpecOwner == InitVC(EnvMigrate) /\ [][NextOwner]_vars

NextFold == ReadCalls

SpecFold == InitFold /\ [][NextFold]_vars

\* ================================================================ claims
OnReadReady == VC \in nh.read_ready_list
OnReadEnable == InList(nh.read_enable_list, VC)
ReadArmed ==
  /\ vc.life = "open" /\ vc.closed = 0
  /\ read.triggered = 1 /\ read.enabled = 1
InReadReady == \E i \in 1..Len(stack) : stack[i].pc = "read_ready"

\* C1 (as claimed): in every reachable state a VC with read.triggered = 1,
\* read.enabled = 1 and closed = 0 is on exactly one of read_ready_list and
\* read_enable_list, never on neither and never on both.
C1_ExactlyOneList == ReadArmed => (OnReadReady # OnReadEnable)

\* C1 (amended): whenever thread A is not inside a VC_EVENT_READ_READY
\* callback, a VC with read.triggered = 1, read.enabled = 1 and closed = 0 is
\* on at least one of read_ready_list and read_enable_list.
C1_OnSomeList == (ReadArmed /\ ~InReadReady) => (OnReadReady \/ OnReadEnable)

\* The VC is armed and on both lists: thread B reenabled it across threads
\* while it was already queued as ready.
C1_Witness == ReadArmed /\ stack = <<>> /\ OnReadReady /\ OnReadEnable

\* C2 (as claimed): recursion is never negative, and close_UnixNetVConnection
\* never runs for a VC whose recursion > 0, on any path that reaches close.
C2_NoCloseInsideCallback == vc.recursion >= 0 /\ ~hist.close_rec

\* C3: liveness of the deferred close.  Once do_io_close has set closed
\* and has not closed inline, close_UnixNetVConnection is eventually called,
\* wherever the connection is queued at that moment.
DeferredClose == hist.io_close /\ vc.closed # 0 /\ vc.life = "open"
C3_DeferredCloseCompletes == DeferredClose ~> (hist.closes > 0)

\* C4 (as claimed): close_UnixNetVConnection runs at most once for a VC, and
\* once it has run no pass or signal path touches the VC again.
C4_ClosedOnceThenUntouched == hist.closes <= 1 /\ ~hist.touched

\* C6: in every reachable state and in both directions ndone <= nbytes, or
\* nbytes = 0.
C6_DoneWithinBytes ==
  \A d \in Dirs : State[d].ndone <= State[d].nbytes \/ State[d].nbytes = 0

\* A read pass found more writable bytes than ntodo and stopped at nbytes.
C6_Witness ==
  /\ hist.rsys > 0 /\ read.nbytes > 0 /\ read.ndone = read.nbytes
  /\ \E i \in 1..Len(hist.pass) :
       /\ hist.pass[i].d = "read"
       /\ hist.pass[i].avail > hist.pass[i].nbytes - hist.pass[i].ndone

\* C7: in each direction the bytes the socket moved since the VIO was set up,
\* the sum of the positive results r, ndone and the buffer's position are all
\* equal; a pass whose result is EAGAIN, end of stream or an error leaves
\* ndone and the buffer as they were.
Sock(d) == IF d = "read" THEN hist.rsock ELSE hist.wsock
SumR(d) == IF d = "read" THEN hist.rsum ELSE hist.wsum
C7_BytesConserved ==
  /\ \A d \in Dirs :
       /\ Sock(d) = State[d].ndone
       /\ SumR(d) = State[d].ndone
       /\ State[d].buf # NoBuf => State[d].buf.pos = State[d].ndone
  /\ \A i \in 1..Len(hist.res) :
       hist.res[i].r <= 0 =>
         /\ State[hist.res[i].d].ndone = hist.res[i].ndone
         /\ State[hist.res[i].d].buf = hist.res[i].buf

\* A read pass of two readv calls: the first filled NET_MAX_IOV blocks, the
\* second got nothing, and the pass counts the bytes of the first.
C7_Witness ==
  /\ hist.rsys = 2
  /\ \E i \in 1..Len(hist.res) :
       hist.res[i].d = "read" /\ hist.res[i].r = NET_MAX_IOV
  /\ read.ndone = NET_MAX_IOV

\* C8: between two do_io_read calls VC_EVENT_READ_COMPLETE is delivered at
\* most once, and only when ntodo is 0; a pass on a VIO with nothing left to
\* do makes no syscall and delivers no second COMPLETE.  The same for
\* VC_EVENT_WRITE_COMPLETE between do_io_write calls.
Sys(d) == IF d = "read" THEN hist.rsys ELSE hist.wsys
C8_CompleteOnce ==
  /\ hist.rcomp <= 1 /\ hist.wcomp <= 1 /\ hist.comp_ok
  /\ \A i \in 1..Len(hist.pass) :
       hist.pass[i].nbytes - hist.pass[i].ndone <= 0 =>
         /\ Sys(hist.pass[i].d) = 0
         /\ hist.sig = <<>>

\* VC_EVENT_READ_COMPLETE was delivered, the VIO was reenabled and a read
\* pass ran on it.
C8_Witness ==
  /\ hist.rcomp = 1
  /\ \E i \in 1..Len(hist.pass) :
       /\ hist.pass[i].d = "read" /\ hist.pass[i].op = VIO_READ
       /\ hist.pass[i].enabled = 1 /\ hist.pass[i].triggered = 1
       /\ hist.pass[i].nbytes > 0 /\ hist.pass[i].ndone = hist.pass[i].nbytes

\* C9 (as claimed): after do_io_read(cont, 0, buf) with a buffer, a read pass
\* on the enabled VIO reads from the socket into the buffer.
C9_ReadsUntilEOS ==
  \A i \in 1..Len(hist.pass) :
    ( /\ hist.pass[i].d = "read" /\ hist.pass[i].op = VIO_READ
      /\ hist.pass[i].enabled = 1 /\ hist.pass[i].nbytes = 0
      /\ ~hist.pass[i].null /\ hist.pass[i].avail > 0 ) => hist.rsys > 0

\* C10: a read pass on an enabled READ VIO with ntodo > 0 and a buffer without
\* a writable byte makes no syscall, delivers no event, leaves ndone and
\* triggered as they were and ends with read.enabled = 0.
FullBufferPass(p) ==
  /\ p.d = "read" /\ p.op = VIO_READ /\ p.enabled = 1
  /\ p.nbytes - p.ndone > 0 /\ ~p.null /\ p.avail = 0
C10_FullBufferDisables ==
  \A i \in 1..Len(hist.pass) :
    FullBufferPass(hist.pass[i]) =>
      /\ hist.rsys = 0 /\ hist.sig = <<>>
      /\ read.ndone = hist.pass[i].ndone
      /\ read.triggered = hist.pass[i].triggered
      /\ read.enabled = 0

C10_Witness ==
  \E i \in 1..Len(hist.pass) :
    FullBufferPass(hist.pass[i]) /\ hist.pass[i].triggered = 1

\* C5 (as claimed): once do_io_close has been called on a VC, no event is
\* delivered to any continuation for that VC.
C5_NoEventAfterClose == ~hist.ev_after_close

\* C11 (as claimed): in a read pass whose last read/readv returned less than
\* it attempted, the effective result is total_read - attempted + max(last, 0),
\* which is the number of bytes all the calls of the pass read, and it is
\* <= 0 only when the pass moved no byte.
ShortLast(p) == p.d = "calls" /\ p.L.r < p.L.rattempted
Folded(p) == p.L.total_read - p.L.rattempted + Max(p.L.r, 0)
C11_FoldedTotal ==
  \A i \in 1..Len(hist.res) :
    ShortLast(hist.res[i]) =>
      /\ hist.res[i].r = Folded(hist.res[i])
      /\ hist.res[i].r = hist.res[i].L.moved
      /\ hist.res[i].r <= 0 => hist.res[i].L.moved = 0

\* C11 (amended): the effective result is that folded total, the bytes all
\* the calls read, except that a pass whose only call failed keeps the
\* call's negative errno; it is <= 0 only when the pass moved no byte.
C11_FoldedOrErrno ==
  \A i \in 1..Len(hist.res) :
    ShortLast(hist.res[i]) =>
      /\ hist.res[i].r = IF hist.res[i].L.calls = 1 /\ hist.res[i].L.r < 0
                         THEN hist.res[i].L.r
                         ELSE Folded(hist.res[i])
      /\ Max(hist.res[i].r, 0) = hist.res[i].L.moved
      /\ hist.res[i].r <= 0 => hist.res[i].L.moved = 0

\* The first readv filled NET_MAX_IOV blocks and the second came back short
\* of what it attempted, with a byte.
C11_Witness ==
  \E i \in 1..Len(hist.res) :
    /\ ShortLast(hist.res[i]) /\ hist.res[i].L.calls = 2
    /\ hist.res[i].L.r = 1 /\ hist.res[i].r = NET_MAX_IOV + 1

\* C12 (as claimed): once mainEvent has disarmed next_inactivity_timeout_at
\* and nothing has armed it again, a later mainEvent(EVENT_IMMEDIATE) tick
\* delivers no VC_EVENT_INACTIVITY_TIMEOUT.  A step taken from thread A's
\* event loop with the deadline at 0 delivers none.
Delivers(h, event) == \E i \in 1..Len(h.sig) : h.sig[i] = event
C12_NoRedelivery ==
  [][(stack = <<>> /\ vc.next_inactivity_timeout_at = 0)
       => ~Delivers(hist', VC_EVENT_INACTIVITY_TIMEOUT)]_vars

\* C13: a reenable of a disabled direction by thread B, under the VIO's
\* mutex, while thread A holds nh->mutex, leaves the VC exactly once on A's
\* enable list of that direction with in_enabled_list = 1, calls A's signal
\* hook and leaves A's ready lists and the polling binding alone; A's next
\* drain takes the VC off the enable list, with in_enabled_list = 0, and a
\* triggered VC is then on the ready list.
Dir(d) == IF d = "read" THEN read ELSE write
Times(q, x) == Len(SelectSeq(q, LAMBDA y : y = x))
CrossThreadReenable(d) ==
  /\ nh.mutex = "A" /\ other.lock # NULL /\ Dir(d).mutex = other.lock
  /\ Dir(d).enabled = 0 /\ Dir(d)'.enabled = 1
Drain(d) ==
  /\ nh.phase = "idle" /\ nh'.phase = "read"
  /\ InList(nh[EnableOf(d)], VC)
C13_CrossThreadReenable ==
  [][\A d \in Dirs :
       /\ CrossThreadReenable(d) =>
            /\ Dir(d)'.in_enabled_list = 1
            /\ Times(nh'[EnableOf(d)], VC) = 1
            /\ hist'.wake
            /\ nh'.read_ready_list = nh.read_ready_list
            /\ nh'.write_ready_list = nh.write_ready_list
            /\ vc'.ep = vc.ep
       /\ Drain(d) =>
            /\ Dir(d)'.in_enabled_list = 0
            /\ ~InList(nh'[EnableOf(d)], VC)
            /\ Dir(d)'.triggered = 1 => VC \in nh'[ReadyOf(d)]]_vars

\* Thread B has just reenabled the read direction across threads: thread A
\* holds nh->mutex and the VC is queued on the read enable list.
C13_Witness ==
  /\ hist.wake /\ nh.mutex = "A" /\ other.lock # NULL
  /\ read.mutex = other.lock /\ read.enabled = 1
  /\ read.in_enabled_list = 1 /\ OnReadEnable

\* C15: a write pass whose result is -EAGAIN or -ENOTCONN delivers no event,
\* leaves ndone, the reader and write.enabled as they were, clears
\* write.triggered and leaves the VC off the write ready list; the next write
\* pass, after the reactor has queued the VC again, starts its calls from the
\* same reader position and the same ndone.
WriteAgain(h) ==
  \E i \in 1..Len(h.res) :
     h.res[i].d = "write" /\ h.res[i].r \in {-EAGAIN, -ENOTCONN}
WriteCalls(h) ==
  \E i \in 1..Len(h.res) : h.res[i].d = "write"
C16_ClosedMonotone ==
  [][(vc.life = "open" /\ vc'.life = "open" /\ vc.closed # 0) =>
       vc'.closed = vc.closed]_vars

\* C17: a shutdown bit set by do_io_shutdown stays set as long as the VC is
\* open, whatever do_io_shutdown is called with later.
C17_ShutdownMonotone ==
  [][(vc.life = "open" /\ vc'.life = "open") =>
       \A bit \in vc.shutdown : bit \in vc'.shutdown]_vars

\* C18: an end of stream, an error or a timeout signalled on a VIO without a
\* continuation calls no handler and sets closed; when that signal brings
\* recursion back to 0 the VC is closed there and then, and the function that
\* signalled returns at once: the VC is freed, on no list, and nothing else
\* is delivered.  With recursion still above 0 the VC stays open and closed.
NullFrame(q) ==
  /\ q # <<>>
  /\ q[Len(q)].cont = NULL /\ q[Len(q)].ev \in TerminalEvents
NullSignal == Len(stack') = Len(stack) + 1 /\ NullFrame(stack')
NullReturn == NullFrame(stack) /\ Len(stack') < Len(stack)
OnNoList ==
  /\ VC \notin nh.open_list
  /\ VC \notin nh.read_ready_list /\ VC \notin nh.write_ready_list
  /\ ~InList(nh.read_enable_list, VC) /\ ~InList(nh.write_enable_list, VC)
C18_NullContinuationCloses ==
  [][/\ NullSignal => (vc'.closed = 1 /\ hist'.sig = <<>>)
     /\ (NullReturn /\ vc.life = "open" /\ vc.recursion = 1) =>
          /\ vc'.life = "freed" /\ OnNoList'
          /\ hist'.sig = <<>> /\ Len(stack') = Len(stack) - 1
     /\ (NullReturn /\ vc.life = "open" /\ vc.recursion > 1) =>
          /\ vc'.life = "open" /\ vc'.closed = vc.closed
          /\ vc'.recursion = vc.recursion - 1]_vars

\* An end of stream was signalled on a read VIO without a continuation, from
\* the event loop: closed is set and the signal is about to return.
C18_Witness ==
  /\ NullFrame(stack) /\ Len(stack) = 1
  /\ stack[1].ev = VC_EVENT_EOS /\ stack[1].pc = "read_done"
  /\ vc.closed = 1 /\ vc.recursion = 1 /\ vc.life = "open"

\* C19: one firing of a timeout in mainEvent delivers the event at most once
\* per step; when the read-side callback returns, the continuation that owns
\* both VIOs gets nothing more, and a write continuation that is not the read
\* continuation, was not replaced during the callback, on a VC that is open,
\* not closed and not shut down for writing, gets the event once.
\* C19_WriteSideOnce asks this only when the deadline was not armed again
\* during the read-side callback.
MainReadReturns ==
  /\ Len(stack) = 1 /\ stack[1].pc = "main_read" /\ vc.life = "open"
  /\ stack' = <<>> \/ stack'[1].pc = "main_write"
WriteSideDue ==
  /\ vc.closed = 0
  /\ write.cont # NULL /\ write.cont = stack[1].wcont
  /\ write.cont # stack[1].rcont
  /\ NET_VC_SHUTDOWN_WRITE \notin vc.shutdown
WriteSideSignalled ==
  /\ hist'.sig = <<stack[1].sig>>
  /\ stack'[1].pc = "main_write" /\ stack'[1].cont = write.cont
MainFires == stack = <<>> /\ stack' # <<>> /\ stack'[1].pc \in {"main_read", "main_write"}
C19_BothOnce ==
  [][/\ MainFires => Len(hist'.sig) <= 1
     /\ (MainReadReturns /\ write.cont = stack[1].rcont) => hist'.sig = <<>>
     /\ (MainReadReturns /\ WriteSideDue) => WriteSideSignalled]_vars
C19_WriteSideOnce ==
  [][/\ MainFires => Len(hist'.sig) <= 1
     /\ (MainReadReturns /\ write.cont = stack[1].rcont) => hist'.sig = <<>>
     /\ (MainReadReturns /\ WriteSideDue /\ vc[stack[1].at] = 0) => WriteSideSignalled
     /\ (MainReadReturns /\ WriteSideDue /\ vc[stack[1].at] # 0) => hist'.sig = <<>>]_vars

\* The read continuation c1 got the timeout and returned; the write
\* continuation c2 is now in its handler for the same firing.
C19_Witness ==
  /\ Len(stack) = 1 /\ stack[1].pc = "main_write"
  /\ stack[1].rcont = "c1" /\ stack[1].cont = "c2"
  /\ hist.sig = <<VC_EVENT_INACTIVITY_TIMEOUT>>

\* C20: a call of connectUp delivers one event to the action's continuation
\* and nothing more when that handler returns: NET_EVENT_OPEN with the VC on
\* open_list and running, or NET_EVENT_OPEN_FAILED (on throttling with
\* -ENET_THROTTLING) with the VC never on open_list and freed on return.
ConnectUpCalled == vc.life = "new" /\ stack = <<>> /\ stack' # stack
ConnectUpReturns(pc) == Len(stack) = 1 /\ stack[1].pc = pc /\ stack' = <<>>
C20_OneLifecycleEvent ==
  [][/\ ConnectUpCalled =>
          /\ Len(stack') = 1
          /\ \/ /\ hist'.sig = <<NET_EVENT_OPEN>>
                /\ VC \in nh'.open_list /\ vc'.life = "open"
             \/ /\ hist'.sig = <<NET_EVENT_OPEN_FAILED>>
                /\ VC \notin nh'.open_list /\ vc'.life = "new"
     /\ ConnectUpReturns("open") => hist'.sig = <<>>
     /\ ConnectUpReturns("open_failed") =>
          /\ hist'.sig = <<>>
          /\ VC \notin nh.open_list /\ VC \notin nh'.open_list
          /\ vc'.life = "freed"]_vars

\* C14: after migrateToCurrentThread from thread A to thread B the VC it
\* returned holds the socket the source had, which was never closed, is
\* registered with B's polling descriptor and is on B's open_list; once the
\* source VC is freed it is on no list of A and the open-connection counter
\* is what it was before the migration.
\* C14_MigratedWhenPopulated asks this of a migration that returned a VC; a
\* migration whose populate failed returns none and leaves none on B's
\* open_list.
Migrated == hist.mig # <<>>
TakenOver ==
  /\ other.netvc.life = "open" /\ other.netvc.closed = 0
  /\ other.netvc.fd = hist.mig[1].fd /\ other.netvc.fd # NO_FD
  /\ ~hist.fd_closed
  /\ other.netvc.ep /\ other.netvc.thread = "B"
  /\ "netvc" \in other.open_list
SourceGone ==
  vc.life = "freed" => (OnNoList /\ other.open_stat = hist.mig[1].stat)
C14_Migrated ==
  Migrated => (other.ret = "netvc" /\ TakenOver /\ SourceGone)
C14_MigratedWhenPopulated ==
  /\ (Migrated /\ other.ret = "netvc") => (TakenOver /\ SourceGone)
  /\ (Migrated /\ other.ret # "netvc") =>
        /\ other.open_list = {}
        /\ other.netvc.fd = NO_FD \/ other.netvc.closed = 1

\* The migration returned a VC and thread A has since freed the source.
C14_Witness ==
  /\ Migrated /\ other.ret = "netvc" /\ vc.life = "freed"
  /\ "netvc" \in other.open_list

\* C21 (as claimed): whenever thread A is between operations (in its event
\* loop, no pass and no handler running) an open VC is on the ready list of a
\* direction if and only if that direction is triggered and enabled.
Between == stack = <<>> /\ nh.phase = "idle" /\ vc.life = "open"
C21_ReadyIffArmed ==
  Between =>
    \A d \in Dirs :
      VC \in nh[ReadyOf(d)] <=> (Dir(d).triggered = 1 /\ Dir(d).enabled = 1)

\* C22 (as claimed): whenever thread B is not inside a reenable, in each
\* direction in_enabled_list = 1 if and only if the VC is linked on the enable
\* list of that direction, and it is linked there at most once.
C22_FlagIffLinked ==
  other.push = <<>> =>
    \A d \in Dirs :
      /\ Dir(d).in_enabled_list = 1 <=> InList(nh[EnableOf(d)], VC)
      /\ Times(nh[EnableOf(d)], VC) <= 1

\* C23 (as claimed): when a signal made inside a read or write pass
\* (VC_EVENT_READ_READY, the VC_EVENT_WRITE_READY before the write, the
\* VC_EVENT_WRITE_READY after the write, the write-buffer-empty event) returns
\* EVENT_CONT and the VIO's mutex is no longer the lock the pass holds, the
\* pass makes no syscall, delivers no event and changes no field of either
\* VIO or buffer: it only reschedules.
PassSignals == {"read_ready", "write_refill", "write_wbe", "write_ready"}
PassDir(pc) == IF pc = "read_ready" THEN "read" ELSE "write"
ResumesSwapped(pc) ==
  /\ stack # <<>> /\ stack[Len(stack)].pc = pc
  /\ Len(stack') = Len(stack) - 1
  /\ vc.closed = 0 /\ vc.life = "open"
  /\ stack[Len(stack)].lock # Dir(PassDir(pc)).mutex
C23_LockSwapRecovery ==
  [][\A pc \in PassSignals :
       ResumesSwapped(pc) =>
         /\ read' = read /\ write' = write
         /\ hist'.rsys = 0 /\ hist'.wsys = 0 /\ hist'.sig = <<>>]_vars

\* C24 (as claimed): a write pass that writes bytes, leaves the reader empty
\* and the VIO not complete while write_buffer_empty_event holds an event
\* clears the field and delivers that event to the write continuation before
\* it returns, whether or not it signalled VC_EVENT_WRITE_READY before.
DrainedWithTrap ==
  /\ vc.write_buffer_empty_event # EVENT_NONE
  /\ \E i \in 1..Len(hist'.res) : hist'.res[i].d = "write" /\ hist'.res[i].r > 0
  /\ read_avail(write'.buf) = 0
  /\ write'.nbytes - write'.ndone > 0
C24_TrapDelivered ==
  [][DrainedWithTrap =>
       /\ vc'.write_buffer_empty_event = EVENT_NONE
       /\ hist'.sig = <<vc.write_buffer_empty_event>>
       /\ stack'[Len(stack')].cont = write.cont]_vars

\* C25 (as claimed): every call of close_UnixNetVConnection(vc, t) finds
\* vc.thread = t at its assertion, whichever thread called do_io_close.
C25_CloseOnOwner == hist.close_thread_ok

\* C26: a read or write pass whose effective result is 0 or -ECONNRESET
\* delivers VC_EVENT_EOS and nothing else, one with any other negative result
\* but -EAGAIN and -ENOTCONN delivers VC_EVENT_ERROR and nothing else, with
\* lerrno = -r; the direction is then disabled and not triggered, and when
\* the handler has returned and the VC is still open the VC is off that
\* direction's ready list, still not triggered, and nothing more is delivered.
NextDir(d) == IF d = "read" THEN read' ELSE write'
Fatal(p) == p.r <= 0 /\ p.r \notin {-EAGAIN, -ENOTCONN}
EventOf(r) == IF r \in {0, -ECONNRESET} THEN VC_EVENT_EOS ELSE VC_EVENT_ERROR
DoneFrame(f) ==
  /\ f.pc \in {"read_done", "write_done"}
  /\ f.ev \in {VC_EVENT_EOS, VC_EVENT_ERROR} /\ f.cont # NULL
DoneDir(f) == IF f.pc = "read_done" THEN "read" ELSE "write"
DoneReturns ==
  /\ stack # <<>> /\ DoneFrame(stack[Len(stack)])
  /\ Len(stack') = Len(stack) - 1 /\ vc'.life = "open"
C26_OneShot ==
  [][/\ \A i \in 1..Len(hist'.res) :
          (Fatal(hist'.res[i]) /\ NextDir(hist'.res[i].d).cont # NULL) =>
            /\ hist'.sig = <<EventOf(hist'.res[i].r)>>
            /\ hist'.res[i].r \notin {0, -ECONNRESET} =>
                  vc'.lerrno = -hist'.res[i].r
            /\ NextDir(hist'.res[i].d).enabled = 0
            /\ NextDir(hist'.res[i].d).triggered = 0
     /\ DoneReturns =>
          /\ VC \notin nh'[ReadyOf(DoneDir(stack[Len(stack)]))]
          /\ NextDir(DoneDir(stack[Len(stack)])).triggered = 0
          /\ hist'.sig = <<>>]_vars

\* A read pass got -EPIPE: the handler of VC_EVENT_ERROR is running, with
\* lerrno set and the read side disabled and not triggered.
C26_Witness ==
  /\ Len(stack) = 1 /\ stack[1].pc = "read_done"
  /\ stack[1].ev = VC_EVENT_ERROR /\ vc.lerrno = EPIPE
  /\ read.enabled = 0 /\ read.triggered = 0
  /\ \E i \in 1..Len(hist.res) : hist.res[i].r = -EPIPE

\* C27: whenever free is called, the VC is on no open, ready or enable list,
\* both timeout deadlines are 0, the polling binding is stopped and
\* con.fd = NO_FD.  free leaves all of these as it finds them, so they are
\* read in the state in which the VC has just been freed.
FreeCalled == vc.life # "freed" /\ vc'.life = "freed"
C27_FreeClean ==
  [][FreeCalled =>
       /\ VC \notin nh'.open_list
       /\ \A d \in Dirs : /\ VC \notin nh'[ReadyOf(d)]
                          /\ ~InList(nh'[EnableOf(d)], VC)
       /\ vc'.next_inactivity_timeout_at = 0
       /\ vc'.next_activity_timeout_at = 0
       /\ ~vc'.ep
       /\ vc'.fd = NO_FD]_vars

\* C28: a write pass that finds the handshake incomplete makes no write
\* syscall, leaves the write VIO as it is and delivers no WRITE_READY or
\* WRITE_COMPLETE, and what sslStartHandShake gave decides the rest:
\* EVENT_ERROR sets lerrno = err and delivers VC_EVENT_ERROR to the write
\* VIO's continuation (when there is one), WANT_READ and
\* WANT_ACCEPT leave read.triggered = 0 and the VC off the read ready list,
\* WANT_WRITE and WANT_CONNECT leave write.triggered = 0 and the VC off the
\* write ready list, EVENT_DONE leaves write.triggered = 1 and the VC on the
\* write ready list iff write.enabled = 1.
\* The step is a write pass of the NetHandler, or of reenable_re, in which
\* the hook gave ret.
HookPass(ret) ==
  /\ ~vc.handshake_complete /\ TryLock(State, write.mutex)
  /\ \/ /\ CanDrain("write") /\ VC \in nh.write_ready_list
        /\ \E ks \in env.answers :
             Becomes(Settle(write_to_net([Begin EXCEPT !.nh.phase = "end"],
                                         ret, EPIPE, ks)))
     \/ /\ InHandler /\ Owns("write") /\ Usable("write")
        /\ vc.thread # NULL /\ nh.mutex = "A" /\ write.triggered = 1
        /\ \E ks \in env.answers :
             Becomes(reenable_re(Begin, "write", "A", ret, EPIPE, ks))
VioOf(w) == [cont |-> w.cont, nbytes |-> w.nbytes, ndone |-> w.ndone,
             buf |-> w.buf, op |-> w.op, mutex |-> w.mutex]
HookOutcome(ret) ==
  /\ hist'.wsys = 0 /\ VioOf(write') = VioOf(write)
  /\ \A i \in 1..Len(hist'.sig) :
       hist'.sig[i] \notin {VC_EVENT_WRITE_READY, VC_EVENT_WRITE_COMPLETE}
  /\ ret = EVENT_ERROR =>
       /\ vc'.lerrno = EPIPE
       /\ write.cont # NULL => hist'.sig = <<VC_EVENT_ERROR>>
  /\ ret \in {SSL_HANDSHAKE_WANT_READ, SSL_HANDSHAKE_WANT_ACCEPT} =>
       read'.triggered = 0 /\ VC \notin nh'.read_ready_list
  /\ ret \in {SSL_HANDSHAKE_WANT_WRITE, SSL_HANDSHAKE_WANT_CONNECT} =>
       write'.triggered = 0 /\ VC \notin nh'.write_ready_list
  /\ ret = EVENT_DONE =>
       /\ write'.triggered = 1
       /\ VC \in nh'.write_ready_list <=> write'.enabled = 1
C28_HookDecides ==
  [][\A ret \in HandShake : HookPass(ret) => HookOutcome(ret)]_vars

\* C29: an out-of-band send has at most one callback pending; a send that
\* returns the whole remaining length delivers VC_EVENT_OOB_COMPLETE, one
\* that returns 0 delivers VC_EVENT_EOS, and either ends the send with no
\* callback pending; one that returns a partial count, -EAGAIN or -ENOTCONN
\* delivers nothing and leaves one callback whose data begins at the first
\* unsent byte and whose length is what is still unsent; cancel_OOB and the
\* close of the VC leave no callback, and no retry runs on a VC that
\* do_io_close has closed.
OobSends(c, buf, len, k) ==
  \/ /\ buf = 0 /\ InHandler /\ vc.oob_ptr = NoOob
     /\ Becomes(send_OOB(Begin, c, 0, len, k))
  \/ /\ CanStart /\ vc.oob_ptr # NoOob
     /\ c = vc.oob_ptr.server_cont /\ buf = vc.oob_ptr.data
     /\ len = vc.oob_ptr.length
     /\ Becomes(retry_OOB_send(Begin, k))
OobOutcome(c, buf, len, written) ==
  IF written = len \/ written = 0
  THEN /\ hist'.sig = <<IF written = 0 THEN VC_EVENT_EOS
                        ELSE VC_EVENT_OOB_COMPLETE>>
       /\ stack'[Len(stack')].cont = c
       /\ vc'.oob_ptr = NoOob
  ELSE /\ hist'.sig = <<>>
       /\ vc'.oob_ptr = [server_cont |-> c,
                         data |-> buf + Max(written, 0),
                         length |-> len - Max(written, 0)]
C29_OobOnce ==
  [][/\ \A c \in env.conts, buf \in 0..MaxOob, len \in 1..MaxOob, k \in OobKernel :
          OobSends(c, buf, len, k) => OobOutcome(c, buf, len, syscall(k, len))
     /\ (InHandler /\ vc.oob_ptr # NoOob /\ Becomes(cancel_OOB(Begin))) =>
          vc'.oob_ptr = NoOob
     /\ vc'.life = "freed" => vc'.oob_ptr = NoOob
     /\ \A k \in OobKernel :
          (CanStart /\ vc.oob_ptr # NoOob /\ Becomes(retry_OOB_send(Begin, k))) =>
            vc.closed = 0]_vars

\* C30: an operation that thread B runs without holding nh->mutex (reenable
\* while thread A holds it, do_io_close, migrateToCurrentThread) leaves the
\* VC's membership of the ready lists and its polling binding as they are.
WithoutNhMutex ==
  \/ nh.mutex = "A" /\ B_reenable
  \/ B_reenable_mark
  \/ B_reenable_link
  \/ B_do_io_close
  \/ B_migrate
C30_OwnerOnly ==
  [][WithoutNhMutex =>
       /\ \A d \in Dirs : nh'[ReadyOf(d)] = nh[ReadyOf(d)]
       /\ vc'.ep = vc.ep]_vars

\* C31: a VC that has been freed is linked on neither enable list of its
\* NetHandler, whatever the interleaving of the owner's close with the
\* reenable of another thread.
C31_FreedOffEnableLists ==
  vc.life = "freed" => \A d \in Dirs : ~InList(nh[EnableOf(d)], VC)

====
